---- MODULE Spec2Model ----
(***************************************************************************)
(* A model of the simulation core of "When Pigs Fly": the Game driver      *)
(* (animate / update / updateEnemies / checkBulletHits / ...), the Player  *)
(* controller and the EnemyPlane controller.                               *)
(*                                                                         *)
(* Units.  Time is in milliseconds (the code uses seconds), angles in      *)
(* milliradians, throttle in thousandths.  Lengths and speeds are in       *)
(* thousandths of a world unit (per second) in the Game and EnemyPlane     *)
(* parts and in hundredths in the Player part.  Health and counters are    *)
(* plain integers.                                                         *)
(*                                                                         *)
(* Four specifications follow the main components:                         *)
(*   Spec       the Game driver, one frame of animate() split into its     *)
(*              stages (the code is single-threaded: the stages of a frame *)
(*              run in program order, pc says which one is next);          *)
(*   SpecPlayer Player.update followed by the boundary enforcer;           *)
(*   SpecBoundary the boundary enforcer under a freely steered player;     *)
(*   SpecEnemy  one EnemyPlane under update() and damage() calls.          *)
(* The others follow single mechanisms over the range of their inputs:     *)
(*   SpecBullets Player.shoot and Player.updateBullets on the clock of     *)
(*               performance.now();                                        *)
(*   SpecMesh    the same, with entries of player.bullets that lack their  *)
(*               mesh;                                                     *)
(*   SpecEffects createExplosion, createHitIndicator and updateEffects;    *)
(*   SpecBounds  Game.checkWorldBounds for the player, in both horizontal  *)
(*               coordinates;                                              *)
(*   SpecWrap    the boundary wrap and the timed re-targeting at the head  *)
(*               of EnemyPlane.update;                                     *)
(*   SpecFaults  a frame in which update functions of entities throw;      *)
(*   SpecBirds   the release of birds and Game.updateBirds;                *)
(*   SpecYaw     Player.updateRotation under the turn keys;                *)
(*   SpecTakeoff Player.update from the start position at full throttle;   *)
(*   SpecFlash   the colour flash of EnemyPlane.damage and its timers;     *)
(*   SpecManeuver the special maneuvers and the rotation of an EnemyPlane, *)
(*               SpecManeuverFair with an update in every frame;           *)
(*   SpecSpeed   currentSpeed of an EnemyPlane on its way to its targets;  *)
(*   SpecGround  the player low over the runway and the ground beside it;  *)
(*   SpecRadar   Game.updateRadar.                                         *)
(***************************************************************************)
EXTENDS Integers, Sequences, FiniteSets, TLC

VARIABLES
    \* ---- Game (src/backup/src/components/EnemyPlane.js, class Game) ----
    pc,            \* the stage of the frame that runs next; "idle" between frames
    idx,           \* loop index i of updateEnemies (1-based; 0 = loop finished)
    frameTime,     \* real time between two frames of this run (ms)
    delta,         \* the elapsed-time step of the current frame (ms)
    frames,        \* number of animate() calls so far
    gameOver,      \* Game.gameOver
    paused,        \* Game.paused
    rescuedBirds,  \* Game.rescuedBirds
    enemies,       \* Game.enemies: sequence of [id, health, hits]; hits is history
    nextId,        \* identity given to the next EnemyPlane constructed
    bullets,       \* Player.bullets: sequence of [id, age]
    shots,         \* number of bullets fired so far (identity of the next one)
    sinceShot,     \* now - Player.lastShotTime, saturated at bulletCooldown
    effects,       \* Game.effectsToUpdate: sequence of [kind, age, calls, lived]
    birds,         \* Game.birds: sequence of bird ages (ms)
    altitude,      \* Game.player.position.y
    screens,       \* the terminal overlays shown so far (showGameOverScreen / showVictoryScreen)
    stageLog,      \* history: what ran in the current frame, in order
    destr,         \* history: one record per run of handleEnemyDestruction
    opLog,         \* history: the calls made in the current frame, in program order,
                   \* as [op, id]: id is the enemy the call is about (0: none)
    \* ---- Player (src/src/components/Player.js), specification SpecPlayer ----
    player,        \* [controls, throttle, rotationX, position, velocity, acceleration]
                   \* and history: applied, the force the last updateBoundaryEffects
                   \* handed to applyForce
    warning,       \* Game.boundaryWarningActive (active), whether the warning sound
                   \* plays (playing), and history: starts, stops (play / pause calls)
    playerDelta,   \* the delta every Player.update of this run is called with (ms)
    ppc,           \* what runs next for the player: "update", "bounds" or "boundary"
    ticks,         \* Player.update calls so far
    keyEvents,     \* keydown / keyup batches handled so far
    \* ---- EnemyPlane (src/src/components/EnemyPlane.js), specification SpecEnemy ----
    enemy,         \* the fields of one EnemyPlane, and dirY = currentDirection.y
    updates,       \* EnemyPlane.update calls so far
    turns,         \* how often currentDirection.y has changed so far
    maneuvers,     \* how often the random trigger of update has fired so far
    \* ---- Player's gun (Player.shoot / Player.updateBullets), specification SpecBullets ----
    gun,           \* [bullets, scene, lastShotTime, shoot] of the Player, and history:
                   \* fired (count), log (creation times), left, evicted (identities)
    now,           \* performance.now() (ms)
    gunStep,       \* real time between two Player.update calls of this run (ms)
    nose,          \* where the plane's nose is during this run (distance from the centre)
    triggerEvents, \* keydown / keyup events of the fire key handled so far
    \* ---- Game.effectsToUpdate on its own, specification SpecEffects ----
    fx,            \* [effects, scene (identities of the effects whose mesh is a child
                   \* of the scene), step (ms between frames)] and history: adds, hitAdds,
                   \* passes (counts), last (the last operation), capped (identities)
    \* ---- Game.checkWorldBounds on its own, specification SpecBounds ----
    obj,           \* [position, velocity] of the player and history: passes (count),
                   \* before (position and velocity before the last pass)
    \* ---- the boundary wrap of EnemyPlane.update on its own, specification SpecWrap ----
    plane,         \* [position, targetDirection, flags] of an EnemyPlane and history:
                   \* wraps (count), before (the three fields before the last update),
                   \* retargeted (the last update changed direction on its timer)
    \* ---- a frame in which updates of entities throw, specification SpecFaults ----
    flock,         \* [birds: sequence of [id, age, dist], scene, rescuedBirds, speed] and history:
                   \* released, passes, releases (counts), last (the last operation),
                   \* evicted (identities); specification SpecBirds
    tick,          \* [enemies, birds, effects] (identities, in list order) and history:
                   \* n (frames so far) and, of the last frame, present, faults,
                   \* updated (identities) and ran (the stages that ran)
    \* ---- Player.update from a standstill in the air, specification SpecTakeoff ----
    takeoff,       \* [throttle, rotationX, position, velocity, isGrounded, dt] of the
                   \* Player (lengths in thousandths) and history: n (updates so
                   \* far), rose (velocity.y has been positive after an update)
    \* ---- the colour flash of EnemyPlane.damage, specification SpecFlash ----
    flash,         \* [color, saved (material._originalColor, "none" when deleted): one
                   \* entry per sub-mesh, timers (due times of the pending setTimeout
                   \* callbacks, in the order they were set), health, isEvading, now
                   \* (ms)] and history: hits (damage calls so far)
    \* ---- the maneuvers and the rotation of an EnemyPlane, specification SpecManeuver ----
    ace,           \* an EnemyPlane as in enemy, with its rotation [x, y, z] (mrad) and
                   \* dt (the delta of its updates), and history: started (special
                   \* maneuvers asked for by the random trigger), hits (damage calls),
                   \* beat (the parity of the number of updates so far)
    \* ---- the player near the runway, specification SpecGround ----
    lander,        \* [x, y, z] of player.position (thousandths), gameOver and
                   \* screen (the game-over screen shown, "none" before)
    \* ---- Game.updateRadar, specification SpecRadar ----
    radar,         \* [radarTimer (ms), blips: sequence of [enemy, x, y] (the blips of
                   \* the last redraw, offsets from the centre of the display in
                   \* tenths of a pixel)] and history: redraws, waited (the simulated
                   \* time the last redraw had seen since the one before), player,
                   \* enemies (the positions the last redraw read)
    \* ---- Player.updateRotation on its own, specification SpecYaw ----
    turn           \* [rotation: [x, y, z], controls, speed] of the Player and history:
                   \* n (updateRotation calls so far), keys (key events so far)

gameVars == <<pc, idx, frameTime, delta, frames, gameOver, paused, rescuedBirds, enemies,
              nextId, bullets, shots, sinceShot, effects, birds, altitude,
              screens, stageLog, destr, opLog>>

playerVars == <<player, warning, playerDelta, ppc, ticks, keyEvents>>

enemyVars == <<enemy, updates, turns, maneuvers>>

bulletVars == <<gun, now, gunStep, nose, triggerEvents>>

effectVars == <<fx>>

boundsVars == <<obj>>

wrapVars == <<plane>>

faultVars == <<tick>>

birdVars == <<flock>>

yawVars == <<turn>>

radarVars == <<radar>>

groundVars == <<lander>>

maneuverVars == <<ace>>

flashVars == <<flash>>

takeoffVars == <<takeoff>>

\* the variables of the specifications of single mechanisms
laterVars == <<bulletVars, effectVars, boundsVars, wrapVars, faultVars, birdVars,
               yawVars, takeoffVars, flashVars, maneuverVars, groundVars, radarVars>>

\* ... but for those of one of them
exceptBullets == <<effectVars, boundsVars, wrapVars, faultVars, birdVars,
                   yawVars, takeoffVars, flashVars, maneuverVars, groundVars, radarVars>>
exceptEffects == <<bulletVars, boundsVars, wrapVars, faultVars, birdVars,
                   yawVars, takeoffVars, flashVars, maneuverVars, groundVars, radarVars>>
exceptBounds == <<bulletVars, effectVars, wrapVars, faultVars, birdVars,
                  yawVars, takeoffVars, flashVars, maneuverVars, groundVars, radarVars>>
exceptWrap == <<bulletVars, effectVars, boundsVars, faultVars, birdVars,
                yawVars, takeoffVars, flashVars, maneuverVars, groundVars, radarVars>>
exceptFaults == <<bulletVars, effectVars, boundsVars, wrapVars, birdVars,
                  yawVars, takeoffVars, flashVars, maneuverVars, groundVars, radarVars>>
exceptBirds == <<bulletVars, effectVars, boundsVars, wrapVars, faultVars,
                 yawVars, takeoffVars, flashVars, maneuverVars, groundVars, radarVars>>
exceptYaw == <<bulletVars, effectVars, boundsVars, wrapVars, faultVars,
               birdVars, takeoffVars, flashVars, maneuverVars, groundVars, radarVars>>
exceptTakeoff == <<bulletVars, effectVars, boundsVars, wrapVars, faultVars,
                   birdVars, yawVars, flashVars, maneuverVars, groundVars, radarVars>>
exceptFlash == <<bulletVars, effectVars, boundsVars, wrapVars, faultVars,
                 birdVars, yawVars, takeoffVars, maneuverVars, groundVars, radarVars>>
exceptManeuver == <<bulletVars, effectVars, boundsVars, wrapVars, faultVars,
                    birdVars, yawVars, takeoffVars, flashVars, groundVars, radarVars>>
exceptGround == <<bulletVars, effectVars, boundsVars, wrapVars, faultVars,
                  birdVars, yawVars, takeoffVars, flashVars, maneuverVars, radarVars>>
exceptRadar == <<bulletVars, effectVars, boundsVars, wrapVars, faultVars,
                 birdVars, yawVars, takeoffVars, flashVars, maneuverVars, groundVars>>

vars == <<gameVars, playerVars, enemyVars, laterVars>>

\* the gun while another specification runs
BulletAside ==
    /\ gun = [bullets |-> <<>>, scene |-> {}, lastShotTime |-> 0, shoot |-> FALSE,
              fired |-> 0, log |-> <<>>, left |-> {}, evicted |-> {}]
    /\ now = 0
    /\ gunStep = 0
    /\ nose = 0
    /\ triggerEvents = 0

\* the effect list while another specification runs
EffectAside ==
    fx = [effects |-> <<>>, scene |-> {}, step |-> 0, adds |-> 0, hitAdds |-> 0,
          passes |-> 0, last |-> "none", capped |-> {}]

\* the object of checkWorldBounds while another specification runs
BoundsAside ==
    obj = [position |-> [x |-> 0, z |-> 0], velocity |-> [x |-> 0, y |-> 0, z |-> 0],
           passes |-> 0,
           before |-> [position |-> [x |-> 0, z |-> 0],
                       velocity |-> [x |-> 0, y |-> 0, z |-> 0]]]

\* the wrapped EnemyPlane while another specification runs
WrapAside ==
    plane = [position |-> [x |-> 0, z |-> 0],
             targetDirection |-> [x |-> 0, y |-> 0, z |-> 1000],
             flags |-> {}, wraps |-> 0, retargeted |-> FALSE,
             before |-> [position |-> [x |-> 0, z |-> 0],
                         targetDirection |-> [x |-> 0, y |-> 0, z |-> 1000],
                         flags |-> {}]]

\* the entity lists of the frame with faults while another specification runs
FaultAside ==
    tick = [enemies |-> <<>>, birds |-> <<>>, effects |-> <<>>, n |-> 0,
            present |-> {}, faults |-> {}, updated |-> {}, ran |-> {}]

\* the flock of birds while another specification runs
BirdAside ==
    flock = [birds |-> <<>>, scene |-> {}, rescuedBirds |-> 0, speed |-> 0,
             released |-> 0, passes |-> 0, releases |-> 0, last |-> "none",
             evicted |-> {}]

\* the rotation of the player while another specification runs
YawAside ==
    turn = [rotation |-> [x |-> 0, y |-> 0, z |-> 0], controls |-> {}, speed |-> 0,
            n |-> 0, keys |-> 0]

\* the player of the take-off run while another specification runs
TakeoffAside ==
    takeoff = [throttle |-> 0, rotationX |-> 0, position |-> [y |-> 0, z |-> 0],
               velocity |-> [y |-> 0, z |-> 0], isGrounded |-> TRUE, dt |-> 0,
               n |-> 0, rose |-> FALSE]

\* the colours of an EnemyPlane while another specification runs
FlashAside ==
    flash = [color |-> <<>>, saved |-> <<>>, timers |-> <<>>, health |-> 0,
             isEvading |-> FALSE, now |-> 0, hits |-> 0]

\* the maneuvering EnemyPlane while another specification runs
ManeuverAside ==
    ace = [health |-> 0]

\* the player near the runway while another specification runs
GroundAside ==
    lander = [x |-> 0, y |-> 0, z |-> 0, gameOver |-> FALSE, screen |-> "none"]

\* the radar while another specification runs
RadarAside ==
    radar = [radarTimer |-> 0, blips |-> <<>>, redraws |-> 0, waited |-> 0,
             player |-> [x |-> 0, z |-> 0, c |-> 0, s |-> 0], enemies |-> <<>>]

LaterAside ==
    /\ BulletAside
    /\ EffectAside
    /\ BoundsAside
    /\ WrapAside
    /\ FaultAside
    /\ BirdAside
    /\ YawAside
    /\ TakeoffAside
    /\ FlashAside
    /\ ManeuverAside
    /\ GroundAside
    /\ RadarAside

-----------------------------------------------------------------------------
(* Bounds of the model *)

\* Game.maxEnemies is 40 in the source; the model keeps the population at this
\* smaller target so that every enemy can be followed individually.
maxEnemies == 2
\* animate() calls in one run
MaxFrames == 5
\* bullets fired in one run
MaxShots == 3
\* the player is not followed above this altitude (whole units)
AltitudeCap == 3

(* Program constants *)
EnemyHealth == 150
BulletDamage == 25
VictoryTarget == 100
maxBirds == 20
maxEffects == 30
MaxBirdsPerEnemy == 4
ExplosionDuration == 2000
HitLifespan == 200
BulletLifetime == 3000
MAX_BULLETS == 20
bulletCooldown == 100
MaxDelta == 100
BirdLifetime == 15000
GroundLevel == 1000
CrashAltitude == 2000
NearGroundAltitude == 5000
TreeHeight == 15000
AbyssAltitude == -50000

\* Real time between two frames (ms), the same for all frames of a run: a fast
\* machine (20 frames per second) and a slow one (a frame per second).
FrameTimes == {50, 1000}
\* Game in progress: the rescued-animal count at the start of the run.  A count
\* below the victory target is reached by earlier destructions, after which
\* birds, bullets and effects expire and every enemy has been replaced.
InitRescued == {0, 98}
\* ... and the health left to the last enemy of the list: untouched, or hit
\* four times already.
InitHealths == {EnemyHealth, 50}

-----------------------------------------------------------------------------
(* Helpers *)

Min(a, b) == IF a < b THEN a ELSE b
Max(a, b) == IF a > b THEN a ELSE b

\* Array.prototype.splice(k, 1) on a 1-based sequence
RemoveAt(s, k) == [j \in 1..(Len(s) - 1) |-> IF j < k THEN s[j] ELSE s[j + 1]]
\* Array.prototype.splice(0, n)
DropFirst(s, n) == [j \in 1..(Len(s) - n) |-> s[j + n]]

CountKind(effs, k) == Cardinality({j \in 1..Len(effs) : effs[j].kind = k})

-----------------------------------------------------------------------------
(* Effects: createExplosion, createHitIndicator, updateEffects *)

\* explosion: age < explosion.userData.duration; hit flash: age < lifespan
Duration(kind) == IF kind = "explosion" THEN ExplosionDuration ELSE HitLifespan

\* calls: how often the effect's update function was called; lived: how many
\* frames started since it was created (both history, read by no operation)
NewEffect(kind) == [kind |-> kind, age |-> 0, calls |-> 0, lived |-> 0]

CreateExplosion(effs) == Append(effs, NewEffect("explosion"))

CreateHitIndicator(effs) == Append(effs, NewEffect("hit"))

\* performance.now() moved on by ft since the previous frame
AgeEffects(effs, ft) ==
    [j \in 1..Len(effs) |->
        [effs[j] EXCEPT !.age = Min(@ + ft, Duration(effs[j].kind)),
                        !.lived = @ + 1]]

UpdateEffectsTwice(effs) ==
    LET once == [j \in 1..Len(effs) |-> [effs[j] EXCEPT !.calls = @ + 2]]
    IN  SelectSeq(once, LAMBDA e : e.age < Duration(e.kind))

\* updateEffects without the cap at its head
UpdateEffectsNoCap(effs) ==
    LET called == [j \in 1..Len(effs) |-> [effs[j] EXCEPT !.calls = @ + 1]]
    IN  SelectSeq(called, LAMBDA e : e.age < Duration(e.kind))

UpdateEffects(effs) ==
    LET excess == Len(effs) - maxEffects
        capped == IF excess > 0 THEN DropFirst(effs, excess) ELSE effs
        called == [j \in 1..Len(capped) |-> [capped[j] EXCEPT !.calls = @ + 1]]
    IN  SelectSeq(called, LAMBDA e : e.age < Duration(e.kind))

-----------------------------------------------------------------------------
(* Enemies: createNewEnemy, handleEnemyDestruction, checkBulletHits.        *)
(* The operators work on a record g of the Game fields they touch.          *)

GameRec == [enemies |-> enemies, bullets |-> bullets, effects |-> effects,
            birds |-> birds, rescuedBirds |-> rescuedBirds, nextId |-> nextId,
            destr |-> destr]

\* "enemy.health <= 0": the enemy is destroyed
DestroyedBelowZero(health) == health < 0

Destroyed(health) == health <= 0

\* EnemyPlane.damage, as far as health goes
Damage(health, amount) == health - amount

CreateNewEnemy(g) ==
    [g EXCEPT !.enemies = Append(@, [id |-> g.nextId, health |-> EnemyHealth, hits |-> 0]),
              !.nextId = @ + 1]

ReleaseBirds(g, count) ==
    [g EXCEPT !.rescuedBirds = @ + count,
              !.birds = @ \o [k \in 1..count |-> 0]]

\* The body of handleEnemyDestruction: roll is Math.floor(Math.random() * 3)
DestroyAndReplaceTwice(g, i, roll) ==
    LET birdCount == Min(MaxBirdsPerEnemy, roll + 2)
        slots     == Max(0, maxBirds - Len(g.birds))
        toRelease == Min(birdCount, slots)
        g1 == [g EXCEPT !.effects = CreateExplosion(@)]
        g2 == IF toRelease > 0 THEN ReleaseBirds(g1, toRelease) ELSE g1
        g3 == [g2 EXCEPT !.enemies = RemoveAt(@, i)]
    IN  CreateNewEnemy(CreateNewEnemy(g3))

DestroyAndReplace(g, i, roll) ==
    LET birdCount == Min(MaxBirdsPerEnemy, roll + 2)
        slots     == Max(0, maxBirds - Len(g.birds))
        toRelease == Min(birdCount, slots)
        g1 == [g EXCEPT !.effects = CreateExplosion(@)]
        g2 == IF toRelease > 0 THEN ReleaseBirds(g1, toRelease) ELSE g1
        g3 == [g2 EXCEPT !.enemies = RemoveAt(@, i)]
    IN  CreateNewEnemy(g3)

\* handleEnemyDestruction, with the history record of what this run did
HandleEnemyDestruction(g, i, roll) ==
    LET e    == g.enemies[i]
        post == DestroyAndReplace(g, i, roll)
        rec  == [id         |-> e.id,
                 hits       |-> e.hits,
                 health     |-> e.health,
                 explosions |-> CountKind(post.effects, "explosion")
                                  - CountKind(g.effects, "explosion"),
                 removed    |-> Cardinality({k \in 1..Len(g.enemies) : g.enemies[k].id = e.id})
                                  - Cardinality({k \in 1..Len(post.enemies) : post.enemies[k].id = e.id}),
                 spawned    |-> post.nextId - g.nextId,
                 released   |-> Len(post.birds) - Len(g.birds),
                 rescued    |-> post.rescuedBirds - g.rescuedBirds]
    IN  [post EXCEPT !.destr = Append(@, rec)]

\* a hit that leaves the bullet in Player.bullets
RegisterHitKeepsBullet(g, i, j) ==
    [g EXCEPT !.effects = CreateHitIndicator(@),
              !.enemies[i].health = Damage(@, BulletDamage),
              !.enemies[i].hits = @ + 1]

\* checkBulletHits, lines 1233-1242: bullet j has hit enemy i
RegisterHit(g, i, j) ==
    [g EXCEPT !.effects = CreateHitIndicator(@),
              !.enemies[i].health = Damage(@, BulletDamage),
              !.enemies[i].hits = @ + 1,
              !.bullets = RemoveAt(@, j)]

\* The bullet loop of checkBulletHits for enemy i, from bullet j downwards;
\* inRange is the set of bullets (by identity) whose squared distance to the
\* enemy is below enemyRadiusSq.
RECURSIVE BulletLoop(_, _, _, _, _)
BulletLoop(g, i, j, inRange, roll) ==
    IF j = 0 THEN g
    ELSE IF g.bullets[j].id \notin inRange THEN BulletLoop(g, i, j - 1, inRange, roll)
    ELSE LET g1 == RegisterHit(g, i, j)
         IN  IF Destroyed(g1.enemies[i].health)
             THEN HandleEnemyDestruction(g1, i, roll)
             ELSE BulletLoop(g1, i, j - 1, inRange, roll)

CheckBulletHits(g, i, inRange, roll) ==
    IF Len(g.bullets) = 0 THEN g
    ELSE BulletLoop(g, i, Len(g.bullets), inRange, roll)

\* Math.floor(Math.random() * 3), drawn when the enemy will be destroyed
BirdRolls(health, nHits) ==
    IF health - nHits * BulletDamage <= 0 THEN 0..2 ELSE {0}

\* One iteration of the loop of updateEnemies
EnemyIteration(g, i, inRange, roll) ==
    IF Destroyed(g.enemies[i].health)
    THEN HandleEnemyDestruction(g, i, roll)
    ELSE CheckBulletHits(g, i, inRange, roll)

\* while (this.enemies.length < this.maxEnemies) this.createNewEnemy()
RECURSIVE Refill(_)
Refill(g) == IF Len(g.enemies) < maxEnemies THEN Refill(CreateNewEnemy(g)) ELSE g

-----------------------------------------------------------------------------
(* Birds: updateBirds *)

UpdateBirds(bs, dt) ==
    LET aged      == [k \in 1..Len(bs) |-> bs[k] + dt]
        kept      == SelectSeq(aged, LAMBDA a : ~(a > BirdLifetime))
        softLimit == (maxBirds * 8) \div 10
    IN  IF Len(bs) = 0 THEN bs
        ELSE IF Len(kept) > softLimit THEN DropFirst(kept, Len(kept) - softLimit)
        ELSE kept

-----------------------------------------------------------------------------
(* Player: update, updateRotation, and the boundary enforcer of Game.        *)
(* Lengths are in hundredths of a unit here and speeds in hundredths of a    *)
(* unit per second, so that the square of a speed stays below 2^31.  The     *)
(* left and right keys are not pressed in this model: rotation.y stays at    *)
(* +-pi, where init() put it, the aircraft flies along -z and x stays 0,     *)
(* so a vector is the record of its y and z components.                      *)

\* Player.maxSpeed = 100 / 3.6
maxSpeed == 2778
\* Player.maxPitch = Math.PI / 6 (milliradians)
maxPitch == 523
thrustPower == 100
\* 9.81 * 0.7: the reduced gravity and the base lift, in ten-thousandths
ReducedGravity == 68670
\* the divisor of |v| * v that gives the drag (drag = 0.002 per unit of speed)
DragDivisor == 50000
\* Game.init: player.position.set(0, 3, runwayLength / 2 - 10)
PlayerStartY == 300
PlayerStartZ == 4000
worldRadius == 84500
boundaryWarningRadius == 67500
boundaryPushRadius == 76000

Abs(a) == IF a < 0 THEN -a ELSE a
Sign(a) == IF a > 0 THEN 1 ELSE IF a < 0 THEN -1 ELSE 0
\* a / b rounded toward zero
TDiv(a, b) == Sign(a) * Sign(b) * (Abs(a) \div Abs(b))

\* Math.sqrt, rounded down (Newton's iteration from above)
RECURSIVE SqrtFrom(_, _)
SqrtFrom(n, x) ==
    LET y == (x + n \div x) \div 2
    IN  IF y >= x THEN x ELSE SqrtFrom(n, y)

Sqrt(n) == IF n = 0 THEN 0 ELSE SqrtFrom(n, 46340)

SqrtUp(n) == IF Sqrt(n) * Sqrt(n) = n THEN Sqrt(n) ELSE Sqrt(n) + 1

\* Math.sin and Math.cos of an angle in milliradians, in thousandths
\* (Taylor polynomials, exact to a thousandth for |x| <= maxPitch)
Sin(x) ==
    LET x2 == TDiv(x * x, 1000)
        x3 == TDiv(x2 * x, 1000)
        x5 == TDiv(x3 * x2, 1000)
    IN  x - TDiv(x3, 6) + TDiv(x5, 120)

Cos(x) ==
    LET x2 == TDiv(x * x, 1000)
        x4 == TDiv(x2 * x2, 1000)
    IN  1000 - TDiv(x2, 2) + TDiv(x4, 24)

\* Vector3.lengthSq and Vector3.length
LengthSq(v) == v.y * v.y + v.z * v.z
Length(v) == Sqrt(LengthSq(v))

\* "Math.min(1, this.throttle + delta * 2.0)" without the Math.min
ThrottleUpUnbounded(t, dt) == t + 2 * dt

ThrottleUp(t, dt) == Min(1000, t + 2 * dt)

ThrottleDown(t, dt) == Max(0, t - 2 * dt)

\* Player.update, lines 217-225
Throttle(t, controls, dt) ==
    IF "throttle" \in controls THEN ThrottleUp(t, dt)
    ELSE IF "brake" \in controls THEN ThrottleDown(t, dt)
    ELSE t

\* Player.update, lines 227-235: forward for rotation.y = pi and pitch rx
Forward(rx) == [y |-> -Sin(rx), z |-> -Cos(rx)]

\* Player.update, lines 237-262: lift, thrust, gravity and drag of one call
Acceleration(t, rx, v, dt) ==
    LET fwd     == Forward(rx)
        gStep   == TDiv(ReducedGravity * dt, 100000)
        base    == IF t > 100 THEN gStep ELSE 0
        pitch   == IF t > 100 THEN TDiv(-rx * t * dt * 6, 1000000) ELSE 0
        speed   == Length(v)
    IN  [y |-> base + pitch + TDiv(fwd.y * t * dt, 10000000 \div thrustPower) - gStep
                 + TDiv(-speed * v.y, DragDivisor),
         z |-> TDiv(fwd.z * t * dt, 10000000 \div thrustPower)
                 + TDiv(-speed * v.z, DragDivisor)]

\* Player.update, lines 272-274: velocity.normalize().multiplyScalar(maxSpeed)
LimitSpeed(v) ==
    IF LengthSq(v) > maxSpeed * maxSpeed
    THEN LET len == SqrtUp(LengthSq(v))
         IN  [y |-> TDiv(v.y * maxSpeed, len), z |-> TDiv(v.z * maxSpeed, len)]
    ELSE v

\* Player.updateRotation: the pitch
UpdateRotation(rx, controls, dt) ==
    LET up   == IF "up" \in controls THEN Max(rx - 2 * dt, -maxPitch) ELSE rx
        down == IF "down" \in controls THEN Min(up + 2 * dt, maxPitch) ELSE up
    IN  IF "up" \notin controls /\ "down" \notin controls THEN TDiv(down * 95, 100)
        ELSE down

Zero2 == [y |-> 0, z |-> 0]

\* Player.update(delta) from line 218 on, Player.acceleration being start when
\* the forces of this call are added to it
PlayerUpdateFrom(p, dt, start) ==
    LET t        == Throttle(p.throttle, p.controls, dt)
        forces   == Acceleration(t, p.rotationX, p.velocity, dt)
        acc      == [y |-> start.y + forces.y, z |-> start.z + forces.z]
        v1       == LimitSpeed([y |-> p.velocity.y + acc.y, z |-> p.velocity.z + acc.z])
        grounded == p.position.y < 100 /\ v1.y < 0
        v2       == IF grounded THEN [y |-> 0, z |-> TDiv(v1.z * 95, 100)] ELSE v1
        y1       == IF grounded THEN 100 ELSE p.position.y
    IN  [p EXCEPT !.throttle = t,
                  !.acceleration = acc,
                  !.velocity = v2,
                  !.position = [y |-> y1 + TDiv(v2.y * dt, 1000),
                                z |-> p.position.z + TDiv(v2.z * dt, 1000)],
                  !.rotationX = UpdateRotation(@, p.controls, dt)]

\* Player.update(delta): "this.acceleration.set(0, 0, 0)", then the rest
PlayerUpdate(p, dt) == PlayerUpdateFrom(p, dt, Zero2)

\* "velocity.x = dir.x * velocity.length() * 0.8; velocity.z = dir.z *
\* velocity.length() * 0.8" for a direction along z: velocity.y is left as it is
Reflect(v, dirZ) ==
    IF v.z * (-dirZ) > 0 THEN [v EXCEPT !.z = dirZ * TDiv(Length(v) * 8, 10)] ELSE v

\* Game.checkWorldBounds(this.player)
CheckWorldBounds(p) ==
    LET dist == Abs(p.position.z)
        dirZ == -Sign(p.position.z)
    IN  IF dist > worldRadius
        THEN [p EXCEPT !.position.z = @ + dirZ * TDiv(worldRadius * 5, 100),
                       !.velocity = Reflect(@, dirZ)]
        ELSE p

\* updateBoundaryEffects with the teleport only
BoundaryEffectsWithoutPush(p) ==
    IF Abs(p.position.z) > TDiv(worldRadius * 11, 10)
    THEN [p EXCEPT !.position.z = Sign(@) * TDiv(worldRadius * 8, 10),
                   !.velocity.z = TDiv(@, 10)]
    ELSE p

\* Player.applyForce(force)
ApplyForce(p, force) ==
    [p EXCEPT !.acceleration = [y |-> @.y + force.y, z |-> @.z + force.z],
              !.applied = force]

\* Game.updateBoundaryEffects as far as the player goes: the teleport far
\* outside, the force toward the centre beyond boundaryPushRadius ("pushFactor
\* = (distanceFromCenter - this.boundaryPushRadius) * 1.5") and the push-back
\* near the edge
UpdateBoundaryEffects(p) ==
    LET far  == Abs(p.position.z) > TDiv(worldRadius * 11, 10)
        p1   == IF far
                THEN [p EXCEPT !.position.z = Sign(@) * TDiv(worldRadius * 8, 10),
                               !.velocity.z = TDiv(@, 10)]
                ELSE p
        dist == Abs(p1.position.z)
        dirZ == -Sign(p1.position.z)
        p2   == IF dist > boundaryWarningRadius /\ dist > boundaryPushRadius
                THEN ApplyForce(p1, [y |-> 0,
                                     z |-> dirZ * TDiv((dist - boundaryPushRadius) * 3, 2)])
                ELSE [p1 EXCEPT !.applied = Zero2]
    IN  IF dist > boundaryWarningRadius /\ dist > boundaryPushRadius
            /\ dist > TDiv(worldRadius * 98, 100)
        THEN [p2 EXCEPT !.position.z = @ + dirZ * TDiv(worldRadius * 2, 100),
                        !.velocity = Reflect(@, dirZ)]
        ELSE p2

\* the warning of updateBoundaryEffects with the sound started in every pass
\* that finds the player in the warning zone
BoundaryWarningReplays(w, p) ==
    LET far  == Abs(p.position.z) > TDiv(worldRadius * 11, 10)
        dist == IF far THEN TDiv(worldRadius * 8, 10) ELSE Abs(p.position.z)
    IN  IF dist > boundaryWarningRadius
        THEN [w EXCEPT !.active = TRUE, !.playing = TRUE, !.starts = @ + 1]
        ELSE IF w.active
             THEN [w EXCEPT !.active = FALSE, !.playing = FALSE, !.stops = @ + 1]
             ELSE w

\* Game.updateBoundaryEffects as far as the warning goes (lines 2096-2115 and
\* 2156-2176), the player being p when the function is entered: the distance
\* is the one after the teleport and before the push-back
BoundaryWarning(w, p) ==
    LET far  == Abs(p.position.z) > TDiv(worldRadius * 11, 10)
        dist == IF far THEN TDiv(worldRadius * 8, 10) ELSE Abs(p.position.z)
    IN  IF dist > boundaryWarningRadius
        THEN IF ~w.active
             THEN [w EXCEPT !.active = TRUE, !.playing = TRUE, !.starts = @ + 1]
             ELSE w
        ELSE IF w.active
             THEN [w EXCEPT !.active = FALSE, !.playing = FALSE, !.stops = @ + 1]
             ELSE w

\* new Player(game), then Game.init's placement on the runway
PlayerCreated ==
    /\ player = [controls |-> {}, throttle |-> 0, rotationX |-> 0,
                 position |-> [y |-> PlayerStartY, z |-> PlayerStartZ],
                 velocity |-> Zero2, acceleration |-> Zero2, applied |-> Zero2]
    /\ warning = [active |-> FALSE, playing |-> FALSE, starts |-> 0, stops |-> 0]
    /\ ppc = "update"
    /\ ticks = 0
    /\ keyEvents = 0

-----------------------------------------------------------------------------
(* EnemyPlane: update, the special maneuvers, damage.  Lengths are in        *)
(* thousandths of a unit.  The rotation of the aircraft is not followed:     *)
(* dirY is the vertical component of currentDirection (of (0, 0, 1) turned   *)
(* by this.rotation), in thousandths, and an update may find it changed.     *)

minAltitude == 15000
maxAltitude == 120000
altitudeWarningThreshold == 110000
\* startDivingAttack: no dive below this altitude
DiveFloor == 30000
\* startBarrelRoll: rollDuration = 1.5
RollDuration == 1500
\* speedChangeRate = 0.5, in thousandths of a unit per second per ms
SpeedChangePerMs == 2

BehaviorStates == {"patrol", "aggressive", "evasive", "diving", "formation"}

\* new EnemyPlane(game, position)
NewEnemyPlane(y, speed, state, dirY) ==
    [y |-> y, dirY |-> dirY, health |-> EnemyHealth, speed |-> speed,
     behaviorState |-> state, currentSpeed |-> speed \div 2,
     isEvading |-> FALSE, evasionTimer |-> 0, evasionDuration |-> 0,
     isDiving |-> FALSE, diveTimer |-> 0, diveDuration |-> 0,
     isRolling |-> FALSE, rollTimer |-> 0]

StartEvasiveManeuvers(e, duration) ==
    [e EXCEPT !.isEvading = TRUE, !.evasionTimer = 0, !.evasionDuration = duration]

\* startDivingAttack: playerAbove is "game.player.position.y > maxAltitude"
StartDivingAttack(e, duration, playerAbove) ==
    IF e.y < DiveFloor \/ playerAbove THEN e
    ELSE [e EXCEPT !.isDiving = TRUE, !.diveTimer = 0, !.diveDuration = duration]

StartBarrelRoll(e) == [e EXCEPT !.isRolling = TRUE, !.rollTimer = 0]

\* startSpecialManeuver: maneuver is the range maneuverType fell in
StartSpecialManeuver(e, maneuver, evasion, dive, playerAbove) ==
    IF maneuver = "dive" THEN StartDivingAttack(e, dive, playerAbove)
    ELSE IF maneuver = "evade" THEN StartEvasiveManeuvers(e, evasion)
    ELSE StartBarrelRoll(e)

HandleEvasiveManeuvers(e, dt) ==
    LET t == e.evasionTimer + dt
    IN  [e EXCEPT !.evasionTimer = t,
                  !.isEvading = ~(t > e.evasionDuration)]

HandleDivingAttack(e, dt) ==
    LET t == e.diveTimer + dt
    IN  [e EXCEPT !.diveTimer = t,
                  !.isDiving = ~(e.y > altitudeWarningThreshold \/ t > e.diveDuration)]

HandleBarrelRoll(e, dt) ==
    LET t == e.rollTimer + dt
    IN  [e EXCEPT !.rollTimer = t, !.isRolling = ~(t > RollDuration)]

\* update, lines 207-214
HandleManeuver(e, dt) ==
    IF e.isEvading THEN HandleEvasiveManeuvers(e, dt)
    ELSE IF e.isDiving THEN HandleDivingAttack(e, dt)
    ELSE IF e.isRolling THEN HandleBarrelRoll(e, dt)
    ELSE e

\* update, lines 259-269
TargetSpeed(e) ==
    IF e.behaviorState = "aggressive" THEN (e.speed * 12) \div 10
    ELSE IF e.behaviorState = "diving" /\ e.isDiving THEN (e.speed * 13) \div 10
    ELSE IF e.behaviorState = "evasive" /\ e.isEvading THEN (e.speed * 11) \div 10
    ELSE IF e.behaviorState = "patrol" THEN (e.speed * 9) \div 10
    ELSE e.speed

\* lines 271-276 without Math.min and Math.max
AdjustSpeedUnclamped(e, dt) ==
    LET target == TargetSpeed(e)
        step   == dt \div SpeedChangePerMs
    IN  IF e.currentSpeed < target THEN e.currentSpeed + step
        ELSE IF e.currentSpeed > target THEN e.currentSpeed - step
        ELSE e.currentSpeed

\* update, lines 271-276
AdjustSpeed(e, dt) ==
    LET target == TargetSpeed(e)
        step   == dt \div SpeedChangePerMs
    IN  IF e.currentSpeed < target THEN Min(target, e.currentSpeed + step)
        ELSE IF e.currentSpeed > target THEN Max(target, e.currentSpeed - step)
        ELSE e.currentSpeed

\* update, lines 287-297, without the upper limit
ClampAltitudeBelowOnly(y, diving) ==
    IF y < minAltitude /\ ~diving THEN minAltitude ELSE y

\* update, lines 287-297: the lower limit spares a diving enemy
ClampAltitude(y, diving) ==
    LET low == IF y < minAltitude /\ ~diving THEN minAltitude ELSE y
    IN  IF low > maxAltitude THEN maxAltitude ELSE low

\* EnemyPlane.update(delta).  outside: the enemy is beyond worldRadius;
\* dirY: the vertical component of its heading after this update's turn;
\* maneuver: the special maneuver the random trigger starts, or "none".
EnemyUpdate(e, dt, outside, dirY, maneuver, evasion, dive, playerAbove) ==
    LET e1 == IF outside
              THEN [e EXCEPT !.isEvading = FALSE, !.isDiving = FALSE, !.isRolling = FALSE]
              ELSE e
        e2 == HandleManeuver(e1, dt)
        cs == AdjustSpeed(e2, dt)
        y1 == e2.y + TDiv(TDiv(dirY * cs, 1000) * dt, 1000)
        e3 == [e2 EXCEPT !.dirY = dirY, !.currentSpeed = cs,
                         !.y = ClampAltitude(y1, e2.isDiving)]
    IN  IF ~e3.isEvading /\ ~e3.isDiving /\ ~e3.isRolling /\ maneuver # "none"
        THEN StartSpecialManeuver(e3, maneuver, evasion, dive, playerAbove)
        ELSE e3

\* EnemyPlane.damage(amount): evade is "Math.random() < 0.7"
EnemyDamage(e, amount, evade, evasion) ==
    LET e1 == [e EXCEPT !.health = Damage(@, amount)]
    IN  IF e1.health > 0 /\ evade THEN StartEvasiveManeuvers(e1, evasion) ELSE e1

\* the maneuver flags that are set
Flags(e) == {f \in {"isEvading", "isDiving", "isRolling"} : e[f]}

\* No EnemyPlane is followed
EnemyAside ==
    /\ enemy = NewEnemyPlane(DiveFloor, 0, "patrol", 0)
    /\ updates = 0
    /\ turns = 0
    /\ maneuvers = 0

-----------------------------------------------------------------------------
(* The player as the Game driver sees it *)

\* Player.update, lines 268-288, vertical axis: vy is the vertical velocity
\* left by the speed limit; ground contact, then position += velocity * delta
PlayerAltitude(alt, vy, dt) ==
    LET grounded == alt < GroundLevel /\ vy < 0
        alt1     == IF grounded THEN GroundLevel ELSE alt
        vy1      == IF grounded THEN 0 ELSE vy
    IN  alt1 + (vy1 * dt) \div 1000

\* Player.shoot: nothing before the cooldown has elapsed
Shoot(bs, since, n) ==
    IF since < bulletCooldown THEN bs ELSE Append(bs, [id |-> n + 1, age |-> 0])

\* Player.updateBullets: expiry, then the cap (no bullet leaves the world here)
UpdateBullets(bs) ==
    LET live == SelectSeq(bs, LAMBDA b : ~(b.age > BulletLifetime))
    IN  IF Len(live) > MAX_BULLETS THEN DropFirst(live, Len(live) - MAX_BULLETS)
        ELSE live

AgeBullets(bs, ft) ==
    [j \in 1..Len(bs) |-> [bs[j] EXCEPT !.age = Min(@ + ft, BulletLifetime + 1)]]

\* checkTerrainCollisions with a ground branch that does not ask for the runway
TerrainCrashAnywhere(alt, terrain) ==
    IF alt < NearGroundAltitude /\ alt < CrashAltitude THEN "ground"
    ELSE IF terrain = "mountain" THEN "mountain"
    ELSE IF terrain = "tree" /\ alt < TreeHeight THEN "tree"
    ELSE "none"

\* checkTerrainCollisions: the fatal collision found at this position, if any.
\* terrain says what lies at the player's (x, z): "runway", "mountain" (inside a
\* mountain's base radius and below its height there), "tree" (within reach of
\* a tree) or "clear".
TerrainCrash(alt, terrain) ==
    IF alt < NearGroundAltitude /\ terrain # "runway" /\ alt < CrashAltitude
        THEN "ground"
    ELSE IF terrain = "mountain" THEN "mountain"
    ELSE IF terrain = "tree" /\ alt < TreeHeight THEN "tree"
    ELSE "none"

Terrains == {"clear", "runway", "mountain", "tree"}
\* vertical velocity at the speed limit, level, and straight down (milli-units/s)
VerticalSpeeds == {-(maxSpeed * 10), 0, maxSpeed * 10}

-----------------------------------------------------------------------------
(* The Game driver: constructor / init, animate, update and its stages *)

\* an entry of opLog
Call(op, id) == [op |-> op, id |-> id]

\* animate without the Math.min
FrameDeltaUnclamped(ft) == ft

\* animate: "const delta = Math.min(this.clock.getDelta(), 0.1)"
FrameDelta(ft) == Min(ft, MaxDelta)

\* a fatal collision that sets gameOver and creates nothing
CrashEffectsNone(effs, crash) == effs

\* checkTerrainCollisions: "this.createExplosion(playerPos.x, playerPos.y,
\* playerPos.z, ...)" of the one collision it found
CrashEffects(effs, crash) ==
    IF crash # "none" THEN CreateExplosion(effs) ELSE effs

\* a loop body that checks for hits before it moves the enemy
EnemyCallsCheckFirst(id, wasDestroyed, isDestroyed) ==
    (IF wasDestroyed THEN <<>> ELSE <<Call("checkBulletHits", id)>>)
    \o <<Call("EnemyPlane.update", id), Call("checkWorldBounds", id)>>
    \o (IF isDestroyed
           THEN <<Call("handleEnemyDestruction", id), Call("createExplosion", id)>>
           ELSE <<>>)

\* updateEnemies: the calls of the loop body for the enemy id, in the order of
\* lines 1142-1169; wasDestroyed is "enemy.health <= 0" at line 1163,
\* isDestroyed says whether handleEnemyDestruction ran in this iteration
EnemyCalls(id, wasDestroyed, isDestroyed) ==
    <<Call("EnemyPlane.update", id), Call("checkWorldBounds", id)>>
    \o (IF wasDestroyed THEN <<>> ELSE <<Call("checkBulletHits", id)>>)
    \o (IF isDestroyed
           THEN <<Call("handleEnemyDestruction", id), Call("createExplosion", id)>>
           ELSE <<>>)

\* an update that refreshes the radar before the boundary effects
TailCallsRadarFirst ==
    <<Call("updateClouds", 0), Call("updateRadar", 0), Call("updateBoundaryEffects", 0)>>

\* update, lines 1069-1076
TailCalls ==
    <<Call("updateClouds", 0), Call("updateBoundaryEffects", 0), Call("updateRadar", 0)>>

GameInit ==
    /\ pc = "idle"
    /\ idx = 0
    /\ frameTime \in FrameTimes
    /\ delta = 0
    /\ frames = 0
    /\ gameOver = FALSE
    /\ paused = FALSE
    /\ rescuedBirds \in InitRescued
    /\ \E h \in InitHealths :
        enemies = [k \in 1..maxEnemies |->
                      [id |-> k,
                       health |-> IF k = maxEnemies THEN h ELSE EnemyHealth,
                       hits |-> IF k = maxEnemies THEN (EnemyHealth - h) \div BulletDamage
                                ELSE 0]]
    /\ nextId = maxEnemies + 1
    /\ bullets = <<>>
    /\ shots = 0
    /\ sinceShot = bulletCooldown
    /\ effects = <<>>
    /\ birds = <<>>
    /\ altitude = 3000
    /\ screens = <<>>
    /\ stageLog = <<>>
    /\ destr = <<>>
    /\ opLog = <<>>
    /\ PlayerCreated
    /\ playerDelta = 0
    /\ EnemyAside
    /\ LaterAside

\* "this.paused || this.gameOver" (update), "this.gameOver" (animate)
HaltedWhenPaused == paused

Halted == paused \/ gameOver

\* What every animate() call does first: the clock has moved on by frameTime, the
\* step is Math.min(clock.getDelta(), 0.1), and updateEffects runs (line 1116
\* when the game is over, line 1020 at the top of update otherwise).
FrameStart ==
    /\ pc = "idle"
    /\ frames < MaxFrames
    /\ frames' = frames + 1
    /\ delta' = FrameDelta(frameTime)
    /\ effects' = UpdateEffects(AgeEffects(effects, frameTime))
    /\ bullets' = AgeBullets(bullets, frameTime)
    /\ sinceShot' = Min(sinceShot + frameTime, bulletCooldown)

\* animate() with gameOver set (effects and render only), or update() returning
\* at "if (this.paused || this.gameOver) return"
AnimateHalted ==
    /\ Halted
    /\ FrameStart
    /\ pc' = "idle"
    /\ stageLog' = <<"effects">>
    /\ opLog' = <<Call("updateEffects", 0)>>
    /\ UNCHANGED <<idx, frameTime, gameOver, paused, rescuedBirds, enemies, nextId,
                   shots, birds, altitude, screens, destr>>
    /\ UNCHANGED <<playerVars, enemyVars, laterVars>>

\* update(): the victory check
UpdateVictory ==
    /\ ~Halted
    /\ rescuedBirds >= VictoryTarget
    /\ FrameStart
    /\ gameOver' = TRUE
    /\ screens' = Append(screens, "victory")
    /\ pc' = "idle"
    /\ stageLog' = <<"effects", "victory">>
    /\ opLog' = <<Call("updateEffects", 0), Call("gameOver", 0), Call("showVictoryScreen", 0)>>
    /\ UNCHANGED <<idx, frameTime, paused, rescuedBirds, enemies, nextId, shots,
                   birds, altitude, destr>>
    /\ UNCHANGED <<playerVars, enemyVars, laterVars>>

\* update(): the game runs, the player is next
UpdateBegin ==
    /\ ~Halted
    /\ rescuedBirds < VictoryTarget
    /\ FrameStart
    /\ pc' = "player"
    /\ stageLog' = <<"effects">>
    /\ opLog' = <<Call("updateEffects", 0)>>
    /\ UNCHANGED <<idx, frameTime, gameOver, paused, rescuedBirds, enemies, nextId,
                   shots, birds, altitude, screens, destr>>
    /\ UNCHANGED <<playerVars, enemyVars, laterVars>>

\* update(), lines 1033-1058: player.update, checkWorldBounds,
\* checkTerrainCollisions, the "y < -50" check.  A fatal terrain collision sets
\* gameOver inside checkTerrainCollisions, whose return ends that function
\* only: update goes on with the enemies.
PlayerStage ==
    /\ pc = "player"
    /\ \E vy \in VerticalSpeeds, shoot \in BOOLEAN, terrain \in Terrains :
        LET alt1    == PlayerAltitude(altitude, vy, delta)
            fired   == IF shoot THEN Shoot(bullets, sinceShot, shots) ELSE bullets
            didFire == Len(fired) > Len(bullets)
            crash   == TerrainCrash(alt1, terrain)
            abyss   == alt1 < AbyssAltitude
            effs1   == CrashEffects(effects, crash)
        IN  /\ alt1 <= AltitudeCap * 1000
            /\ didFire => shots < MaxShots
            /\ altitude' = alt1
            /\ bullets' = UpdateBullets(fired)
            /\ shots' = IF didFire THEN shots + 1 ELSE shots
            /\ sinceShot' = IF didFire THEN 0 ELSE sinceShot
            /\ gameOver' = (gameOver \/ crash # "none" \/ abyss)
            /\ effects' = IF abyss THEN CreateExplosion(effs1) ELSE effs1
            /\ screens' = (IF crash # "none" THEN Append(screens, crash) ELSE screens)
                            \o (IF abyss THEN <<"destroyed">> ELSE <<>>)
            /\ stageLog' = stageLog \o <<"player">>
                            \o (IF crash # "none" \/ abyss THEN <<"gameover">> ELSE <<>>)
            /\ opLog' = opLog
                         \o <<Call("Player.update", 0), Call("checkWorldBounds", 0),
                               Call("checkTerrainCollisions", 0)>>
                         \o (IF Len(effs1) > Len(effects)
                                THEN <<Call("createExplosion", 0)>> ELSE <<>>)
                         \o (IF crash # "none"
                                THEN <<Call("gameOver", 0), Call("showGameOverScreen", 0)>>
                                ELSE <<>>)
                         \o (IF abyss
                                THEN <<Call("gameOver", 0), Call("createExplosion", 0),
                                       Call("showGameOverScreen", 0)>>
                                ELSE <<>>)
            /\ pc' = IF abyss THEN "idle" ELSE "enemies"
            /\ idx' = IF abyss THEN idx ELSE Len(enemies)
    /\ UNCHANGED <<frameTime, delta, frames, paused, rescuedBirds, enemies, nextId,
                   birds, destr>>
    /\ UNCHANGED <<playerVars, enemyVars, laterVars>>

\* updateEnemies: the loop body for enemy idx (the loop runs from the last
\* enemy down to the first)
EnemyStep ==
    /\ pc = "enemies"
    /\ idx >= 1
    /\ \E inRange \in SUBSET {bullets[j].id : j \in 1..Len(bullets)} :
       \E roll \in BirdRolls(enemies[idx].health, Cardinality(inRange)) :
        LET g  == EnemyIteration(GameRec, idx, inRange, roll)
            id == enemies[idx].id
        IN  /\ opLog' = opLog \o EnemyCalls(id, Destroyed(enemies[idx].health),
                                             Len(g.destr) > Len(destr))
            /\ enemies' = g.enemies
            /\ bullets' = g.bullets
            /\ effects' = g.effects
            /\ birds' = g.birds
            /\ rescuedBirds' = g.rescuedBirds
            /\ nextId' = g.nextId
            /\ destr' = g.destr
    /\ idx' = idx - 1
    /\ stageLog' = Append(stageLog, "enemy")
    /\ UNCHANGED <<pc, frameTime, delta, frames, gameOver, paused, shots, sinceShot, altitude,
                   screens>>
    /\ UNCHANGED <<playerVars, enemyVars, laterVars>>

\* updateEnemies: after the loop, the population check
EnemiesDone ==
    /\ pc = "enemies"
    /\ idx = 0
    /\ LET g == Refill(GameRec)
       IN  /\ enemies' = g.enemies
           /\ nextId' = g.nextId
    /\ pc' = "birds"
    /\ stageLog' = Append(stageLog, "refill")
    /\ UNCHANGED <<idx, frameTime, delta, frames, gameOver, paused, rescuedBirds, bullets,
                   shots, sinceShot, effects, birds, altitude, screens, destr, opLog>>
    /\ UNCHANGED <<playerVars, enemyVars, laterVars>>

\* updateBirds
BirdsStage ==
    /\ pc = "birds"
    /\ birds' = UpdateBirds(birds, delta)
    /\ pc' = "tail"
    /\ stageLog' = Append(stageLog, "birds")
    /\ opLog' = Append(opLog, Call("updateBirds", 0))
    /\ UNCHANGED <<idx, frameTime, delta, frames, gameOver, paused, rescuedBirds, enemies,
                   nextId, bullets, shots, sinceShot, effects, altitude, screens,
                   destr>>
    /\ UNCHANGED <<playerVars, enemyVars, laterVars>>

\* updateClouds, updateBoundaryEffects, updateRadar: the end of update()
TailStage ==
    /\ pc = "tail"
    /\ pc' = "idle"
    /\ stageLog' = stageLog \o <<"boundary", "radar">>
    /\ opLog' = opLog \o TailCalls
    /\ UNCHANGED <<idx, frameTime, delta, frames, gameOver, paused, rescuedBirds, enemies,
                   nextId, bullets, shots, sinceShot, effects, birds, altitude,
                   screens, destr>>
    /\ UNCHANGED <<playerVars, enemyVars, laterVars>>

Next ==
    \/ AnimateHalted
    \/ UpdateVictory
    \/ UpdateBegin
    \/ PlayerStage
    \/ EnemyStep
    \/ EnemiesDone
    \/ BirdsStage
    \/ TailStage

Spec == GameInit /\ [][Next]_vars

-----------------------------------------------------------------------------
(* The player's flight: specification SpecPlayer.  Every frame of a running  *)
(* game calls Player.update, checkWorldBounds and, at the end of update,     *)
(* updateBoundaryEffects; key events arrive between frames.                  *)

\* Player.update calls in one run
MaxTicks == 440
\* batches of key events in one run, all of them in the first KeyWindow frames
MaxKeyEvents == 2
KeyWindow == 6

\* delta of a run (ms): animate() passes Math.min(clock.getDelta(), 0.1)
PlayerDeltas == {0, 50, 100}
\* the keys held after a batch of key events
ControlSets == {{}, {"throttle"}, {"brake"}, {"throttle", "brake"},
                {"throttle", "up"}, {"throttle", "down"}}

\* The Game fields the flight does not read
GameAside ==
    /\ pc = "idle"
    /\ idx = 0
    /\ frameTime = 0
    /\ delta = 0
    /\ frames = 0
    /\ gameOver = FALSE
    /\ paused = FALSE
    /\ rescuedBirds = 0
    /\ enemies = <<>>
    /\ nextId = 1
    /\ bullets = <<>>
    /\ shots = 0
    /\ sinceShot = 0
    /\ effects = <<>>
    /\ birds = <<>>
    /\ altitude = 0
    /\ screens = <<>>
    /\ stageLog = <<>>
    /\ destr = <<>>
    /\ opLog = <<>>

PlayerInit ==
    /\ GameAside
    /\ PlayerCreated
    /\ playerDelta \in PlayerDeltas
    /\ EnemyAside
    /\ LaterAside

\* handleKeyDown / handleKeyUp
KeyEvent ==
    /\ ppc = "update"
    /\ keyEvents < MaxKeyEvents
    /\ ticks < KeyWindow
    /\ \E held \in ControlSets \ {player.controls} :
        player' = [player EXCEPT !.controls = held]
    /\ keyEvents' = keyEvents + 1
    /\ UNCHANGED <<gameVars, enemyVars, laterVars, warning, playerDelta, ppc, ticks>>

PlayerTick ==
    /\ ppc = "update"
    /\ ticks < MaxTicks
    /\ player' = PlayerUpdate(player, playerDelta)
    /\ ticks' = ticks + 1
    /\ ppc' = "bounds"
    /\ UNCHANGED <<gameVars, enemyVars, laterVars, warning, playerDelta, keyEvents>>

PlayerBounds ==
    /\ ppc = "bounds"
    /\ player' = CheckWorldBounds(player)
    /\ ppc' = "boundary"
    /\ UNCHANGED <<gameVars, enemyVars, laterVars, warning, playerDelta, ticks, keyEvents>>

PlayerBoundary ==
    /\ ppc = "boundary"
    /\ player' = UpdateBoundaryEffects(player)
    /\ warning' = BoundaryWarning(warning, player)
    /\ ppc' = "update"
    /\ UNCHANGED <<gameVars, enemyVars, laterVars, playerDelta, ticks, keyEvents>>

NextPlayer ==
    \/ KeyEvent
    \/ PlayerTick
    \/ PlayerBounds
    \/ PlayerBoundary

SpecPlayer == PlayerInit /\ [][NextPlayer]_vars

-----------------------------------------------------------------------------
(* The player near the world boundary: specification SpecBoundary.  The      *)
(* flight is followed along z only, as in SpecPlayer, but steered freely:    *)
(* in every frame Player.update moves the aircraft at any speed up to        *)
(* maxSpeed toward the boundary or away from it, and updateBoundaryEffects   *)
(* runs at the end of the frame.                                             *)

\* frames in one run
MaxDriftTicks == 60

\* where a run starts: one unit, and two units, inside boundaryWarningRadius
DriftStarts == {-67400, 67300}
\* the speed along z that Player.update leaves in a frame
DriftSpeeds == {-maxSpeed, 0, maxSpeed}

BoundaryInit ==
    /\ GameAside
    /\ \E z \in DriftStarts :
        player = [controls |-> {}, throttle |-> 0, rotationX |-> 0,
                  position |-> [y |-> 5000, z |-> z],
                  velocity |-> Zero2, acceleration |-> Zero2, applied |-> Zero2]
    /\ warning = [active |-> FALSE, playing |-> FALSE, starts |-> 0, stops |-> 0]
    /\ ppc = "update"
    /\ ticks = 0
    /\ keyEvents = 0
    /\ playerDelta = MaxDelta
    /\ EnemyAside
    /\ LaterAside

\* Player.update, lines 268-288 along z, for any steering: the velocity it
\* leaves and "position += velocity * delta"
Drift ==
    /\ ppc = "update"
    /\ ticks < MaxDriftTicks
    /\ \E v \in DriftSpeeds :
        player' = [player EXCEPT !.acceleration = Zero2,
                                 !.velocity.z = v,
                                 !.position.z = @ + TDiv(v * playerDelta, 1000)]
    /\ ticks' = ticks + 1
    /\ ppc' = "boundary"
    /\ UNCHANGED <<gameVars, enemyVars, laterVars, warning, playerDelta, keyEvents>>

NextBoundary ==
    \/ Drift
    \/ PlayerBoundary

SpecBoundary == BoundaryInit /\ [][NextBoundary]_vars

-----------------------------------------------------------------------------
(* One enemy aircraft: specification SpecEnemy.  The Game calls update once  *)
(* per frame and damage(25) for each bullet that hits.                       *)

\* EnemyPlane.update calls in one run
MaxUpdates == 24
\* changes of the vertical heading in one run
MaxTurns == 1
\* special maneuvers the random trigger starts in one run
MaxManeuvers == 1
\* bullets that hit the enemy in one run
MaxHits == 1

\* position.y handed to the constructor: below the lower limit, the lowest
\* altitude createNewEnemy picks, just below and above the upper limit
StartAltitudes == {5000, DiveFloor, 119500, 130000}
\* 8.32 + Math.random() * 6.24
EnemySpeeds == {14000}
\* the states whose target speed depends on the maneuver, and one of the others
RunBehaviorStates == {"diving", "aggressive"}
HeadingYs == {-1000, 0, 1000}
\* 1 + Math.random() * 2 and 2 + Math.random(), in ms
EvasionDurations == {1000}
DiveDurations == {2000}
Maneuvers == {"none", "dive", "evade", "roll"}
\* "distanceFromCenter > worldRadius": createNewEnemy puts an enemy at most 150
\* units from the centre and MaxUpdates updates move it by less than 50, so
\* it stays inside the world radius of 845 units
OutsideWorld == {FALSE}

EnemyInit ==
    /\ GameAside
    /\ PlayerCreated
    /\ playerDelta = 0
    /\ \E y \in StartAltitudes, speed \in EnemySpeeds, state \in RunBehaviorStates,
          dirY \in HeadingYs :
        enemy = NewEnemyPlane(y, speed, state, dirY)
    /\ updates = 0
    /\ turns = 0
    /\ maneuvers = 0
    /\ LaterAside

\* Game.updateEnemies: enemy.update(delta)
EnemyUpdateCall ==
    /\ enemy.health > 0
    /\ updates < MaxUpdates
    /\ \E outside \in OutsideWorld, dirY \in HeadingYs, maneuver \in Maneuvers,
          evasion \in EvasionDurations, dive \in DiveDurations, playerAbove \in BOOLEAN :
        LET after   == EnemyUpdate(enemy, MaxDelta, outside, dirY, maneuver, evasion,
                                   dive, playerAbove)
        IN  /\ dirY # enemy.dirY => turns < MaxTurns
            /\ maneuver # "none" => maneuvers < MaxManeuvers
            /\ turns' = IF dirY # enemy.dirY THEN turns + 1 ELSE turns
            /\ maneuvers' = IF maneuver # "none" THEN maneuvers + 1 ELSE maneuvers
            /\ enemy' = after
    /\ updates' = updates + 1
    /\ UNCHANGED <<gameVars, playerVars, laterVars>>

\* Game.checkBulletHits: enemy.damage(25)
EnemyDamageCall ==
    /\ enemy.health > EnemyHealth - MaxHits * BulletDamage
    /\ \E evade \in BOOLEAN, evasion \in EvasionDurations :
        enemy' = EnemyDamage(enemy, BulletDamage, evade, evasion)
    /\ UNCHANGED <<gameVars, playerVars, laterVars, updates, turns, maneuvers>>

NextEnemy ==
    \/ EnemyUpdateCall
    \/ EnemyDamageCall

SpecEnemy == EnemyInit /\ [][NextEnemy]_vars

-----------------------------------------------------------------------------
(* The player's gun: Player.shoot and Player.updateBullets as Player.update  *)
(* calls them (specification SpecBullets).  Positions are distances from the *)
(* world centre along the line of fire, in hundredths of a unit; a bullet    *)
(* flies outward.  Times are readings of performance.now() in ms.            *)

\* longest run, on the clock of performance.now()
MaxClock == 4300
\* presses and releases of the fire key in one run
MaxTriggerEvents == 2

\* Player.bulletSpeed, hundredths of a unit per second
bulletSpeed == 8000

\* the reading of performance.now() at the first Player.update
StartTimes == {1000}
\* real time between two frames
GunSteps == {50, 100}
\* in the middle of the world, and 15 units inside its boundary
NosePositions == {0, 83000}

BulletIds(bs) == {bs[j].id : j \in 1..Len(bs)}

\* shoot without its cooldown test
ShootAlways(g, t, from) ==
    [g EXCEPT !.bullets = Append(@, [id |-> g.fired + 1, createdAt |-> t, pos |-> from,
                                            mesh |-> TRUE]),
              !.scene = @ \cup {g.fired + 1},
              !.fired = @ + 1,
              !.log = Append(@, t),
              !.lastShotTime = t]

\* Player.shoot() at time t, the nose of the plane at from
PlayerShoot(g, t, from) ==
    IF t - g.lastShotTime < bulletCooldown THEN g
    ELSE [g EXCEPT !.bullets = Append(@, [id |-> g.fired + 1, createdAt |-> t, pos |-> from,
                                            mesh |-> TRUE]),
                   !.scene = @ \cup {g.fired + 1},
                   !.fired = @ + 1,
                   !.log = Append(@, t),
                   !.lastShotTime = t]

\* the first loop of updateBullets: "if (!bullet.mesh) continue" and
\* "position += velocity * delta"
MoveBullets(bs, dt) ==
    [j \in 1..Len(bs) |->
        IF ~bs[j].mesh THEN bs[j]
        ELSE [bs[j] EXCEPT !.pos = @ + TDiv(bulletSpeed * dt, 1000)]]

\* a cap that keeps the oldest bullets
CapNewest(bs) ==
    IF Len(bs) > MAX_BULLETS THEN SubSeq(bs, 1, MAX_BULLETS) ELSE bs

\* the cap at the end of updateBullets
CapBullets(bs) ==
    IF Len(bs) > MAX_BULLETS THEN DropFirst(bs, Len(bs) - MAX_BULLETS) ELSE bs

\* "age >= 3"
ExpiredAtLifetime(b, t) == t - b.createdAt >= BulletLifetime

\* "age > 3" of the second loop of updateBullets
Expired(b, t) == t - b.createdAt > BulletLifetime

\* Player.updateBullets(delta) at time t; every removal also takes the mesh
\* out of the scene.  Both loops pass over a bullet without a mesh ("if
\* (!bullet.mesh) continue"); the cap does not ask for the mesh.
PlayerUpdateBullets(g, t, dt) ==
    LET moved  == MoveBullets(g.bullets, dt)
        inside == SelectSeq(moved, LAMBDA b : ~b.mesh \/ ~(Abs(b.pos) > worldRadius))
        young  == SelectSeq(inside, LAMBDA b : ~b.mesh \/ ~Expired(b, t))
        kept   == CapBullets(young)
        gone   == BulletIds(moved) \ BulletIds(inside)
        old    == BulletIds(inside) \ BulletIds(young)
        capped == BulletIds(young) \ BulletIds(kept)
    IN  [g EXCEPT !.bullets = kept,
                  !.scene = ((@ \ gone) \ old) \ capped,
                  !.left = @ \cup gone,
                  !.evicted = @ \cup capped]

BulletsInit ==
    /\ GameAside
    /\ PlayerCreated
    /\ playerDelta = 0
    /\ EnemyAside
    /\ RadarAside
    /\ GroundAside
    /\ ManeuverAside
    /\ FlashAside
    /\ TakeoffAside
    /\ gun = [bullets |-> <<>>, scene |-> {}, lastShotTime |-> 0, shoot |-> FALSE,
              fired |-> 0, log |-> <<>>, left |-> {}, evicted |-> {}]
    /\ now \in StartTimes
    /\ gunStep \in GunSteps
    /\ nose \in NosePositions
    /\ triggerEvents = 0
    /\ EffectAside
    /\ BoundsAside
    /\ WrapAside
    /\ FaultAside
    /\ BirdAside
    /\ YawAside

\* handleKeyDown / handleKeyUp of the fire key
TriggerEvent ==
    /\ triggerEvents < MaxTriggerEvents
    /\ gun' = [gun EXCEPT !.shoot = ~@]
    /\ triggerEvents' = triggerEvents + 1
    /\ UNCHANGED <<gameVars, playerVars, enemyVars, exceptBullets, now, gunStep, nose>>

\* the end of Player.update: "if (this.controls.shoot) this.shoot();
\* this.updateBullets(delta)", one frame after the previous one
BulletTick ==
    /\ now < MaxClock
    /\ now' = now + gunStep
    /\ LET shot == IF gun.shoot THEN PlayerShoot(gun, now', nose) ELSE gun
       IN  gun' = PlayerUpdateBullets(shot, now', Min(gunStep, MaxDelta))
    /\ UNCHANGED <<gameVars, playerVars, enemyVars, exceptBullets, gunStep, nose, triggerEvents>>

NextBullets ==
    \/ TriggerEvent
    \/ BulletTick

SpecBullets == BulletsInit /\ [][NextBullets]_vars

\* The same gun with bullets already in player.bullets, some of them entries
\* whose mesh is missing: specification SpecMesh.  "pos" of such an entry
\* stands for nothing.
MeshLists ==
    {<<FALSE>>, <<TRUE, FALSE>>, <<FALSE, TRUE>>, <<FALSE, FALSE, TRUE>>}

BulletsFound(meshes, t, from) ==
    [j \in 1..Len(meshes) |->
        [id |-> j, createdAt |-> t, pos |-> IF meshes[j] THEN from ELSE 0,
         mesh |-> meshes[j]]]

MeshInit ==
    /\ GameAside
    /\ PlayerCreated
    /\ playerDelta = 0
    /\ EnemyAside
    /\ RadarAside
    /\ GroundAside
    /\ ManeuverAside
    /\ FlashAside
    /\ TakeoffAside
    /\ now \in StartTimes
    /\ gunStep \in GunSteps
    /\ nose \in NosePositions
    /\ \E meshes \in MeshLists :
        gun = [bullets |-> BulletsFound(meshes, now, nose),
               scene |-> {j \in 1..Len(meshes) : meshes[j]},
               lastShotTime |-> now, shoot |-> FALSE, fired |-> Len(meshes),
               log |-> <<>>, left |-> {}, evicted |-> {}]
    /\ triggerEvents = 0
    /\ EffectAside
    /\ BoundsAside
    /\ WrapAside
    /\ FaultAside
    /\ BirdAside
    /\ YawAside

SpecMesh == MeshInit /\ [][NextBullets]_vars

-----------------------------------------------------------------------------
(* The effect list on its own: createExplosion, createHitIndicator and       *)
(* updateEffects in any order (specification SpecEffects).  Every effect     *)
(* carries an identity, given in the order of creation.                      *)

\* effects created in one run
MaxEffectAdds == 33
\* hit flashes among them
MaxHitAdds == 1
\* frames (updateEffects passes) in one run
MaxPasses == 2

\* real time between two frames
EffectSteps == {100, 1000}

EffectIds(effs) == {effs[j].id : j \in 1..Len(effs)}

\* "this.effectsToUpdate.push(...)" of createExplosion and createHitIndicator
PushEffect(effs, kind, n) ==
    Append(effs, [id |-> n, kind |-> kind, age |-> 0, calls |-> 0, lived |-> 0])

\* "this.scene.remove(effect.flash)" of updateEffects, and of the update of a
\* hit flash: of the effects that leave the list, those that have a flash
\* leave the scene; the mesh of an explosion is not an effect.flash
SceneAfterEffects(scene, before, after) ==
    scene \ {before[j].id : j \in {i \in 1..Len(before) :
                                      /\ before[i].kind = "hit"
                                      /\ before[i].id \notin EffectIds(after)}}

EffectsInit ==
    /\ GameAside
    /\ PlayerCreated
    /\ playerDelta = 0
    /\ EnemyAside
    /\ RadarAside
    /\ GroundAside
    /\ ManeuverAside
    /\ FlashAside
    /\ TakeoffAside
    /\ BulletAside
    /\ BoundsAside
    /\ WrapAside
    /\ FaultAside
    /\ BirdAside
    /\ YawAside
    /\ \E step \in EffectSteps :
        fx = [effects |-> <<>>, scene |-> {}, step |-> step, adds |-> 0, hitAdds |-> 0,
              passes |-> 0, last |-> "none", capped |-> {}]

\* Game.createExplosion
CreateExplosionCall ==
    /\ fx.adds < MaxEffectAdds
    /\ fx' = [fx EXCEPT !.effects = PushEffect(@, "explosion", fx.adds + 1),
                        !.scene = @ \cup {fx.adds + 1},
                        !.adds = @ + 1,
                        !.last = "add"]
    /\ UNCHANGED <<gameVars, playerVars, enemyVars, exceptEffects>>

\* Game.createHitIndicator
CreateHitIndicatorCall ==
    /\ fx.adds < MaxEffectAdds
    /\ fx.hitAdds < MaxHitAdds
    /\ fx' = [fx EXCEPT !.effects = PushEffect(@, "hit", fx.adds + 1),
                        !.scene = @ \cup {fx.adds + 1},
                        !.adds = @ + 1,
                        !.hitAdds = @ + 1,
                        !.last = "add"]
    /\ UNCHANGED <<gameVars, playerVars, enemyVars, exceptEffects>>

\* Game.updateEffects, one frame after the previous one
UpdateEffectsCall ==
    /\ fx.passes < MaxPasses
    /\ LET aged   == AgeEffects(fx.effects, fx.step)
           after  == UpdateEffects(aged)
           ended  == {aged[j].id : j \in {i \in 1..Len(aged) :
                                            ~(aged[i].age < Duration(aged[i].kind))}}
       IN  fx' = [fx EXCEPT !.effects = after,
                            !.scene = SceneAfterEffects(@, aged, after),
                            !.passes = @ + 1,
                            !.last = "pass",
                            !.capped = @ \cup ((EffectIds(aged) \ EffectIds(after)) \ ended)]
    /\ UNCHANGED <<gameVars, playerVars, enemyVars, exceptEffects>>

NextEffects ==
    \/ CreateExplosionCall
    \/ CreateHitIndicatorCall
    \/ UpdateEffectsCall

SpecEffects == EffectsInit /\ [][NextEffects]_vars

-----------------------------------------------------------------------------
(* Game.checkWorldBounds(this.player) as a function of the player's position *)
(* and velocity (specification SpecBounds).  Lengths are in twentieths of a  *)
(* unit, speeds in twentieths of a unit per second; the player has all three *)
(* velocity components and both horizontal coordinates.                      *)

\* checkWorldBounds passes in one run
MaxBoundsPasses == 2

\* Game.worldRadius, 845 units
boundsRadius == 16900
\* "0.05 * this.worldRadius"
pushbackDistance == 845
\* Player.maxSpeed, 100 km/h = 27.78 units per second
boundsMaxSpeed == 556

\* horizontal coordinates: inside the world, just outside it and far outside
BoundsCoordinates == {-18000, -12000, 0, 12000, 16901, 18000}
BoundsSpeeds == {-500, -300, 0, 300, 500}
BoundsClimbs == {-300, 0, 300}

\* "position.x * position.x + position.z * position.z"
HorizontalSq(p) == p.x * p.x + p.z * p.z

\* Vector3.length
Length3(v) == Sqrt(v.x * v.x + v.y * v.y + v.z * v.z)

\* "velocity.x * (-dirX) + velocity.z * (-dirZ)", times the distance of p from
\* the centre: the component of v pointing away from the centre at p
OutwardDot(v, p) == v.x * p.x + v.z * p.z

\* checkWorldBounds, lines 1909-1916: the velocity correction.  velocity.x is
\* assigned first, and velocity.length() of the second assignment is read after it.
ReflectXZ(v, p) ==
    LET dist == Sqrt(HorizontalSq(p))
        newX == TDiv(-p.x * Length3(v) * 8, dist * 10)
        v1   == [v EXCEPT !.x = newX]
        newZ == TDiv(-p.z * Length3(v1) * 8, dist * 10)
    IN  IF OutwardDot(v, p) > 0 THEN [v1 EXCEPT !.z = newZ] ELSE v

\* checkWorldBounds without its position correction
CheckWorldBoundsVelocityOnly(o) ==
    IF HorizontalSq(o.position) > boundsRadius * boundsRadius
    THEN [o EXCEPT !.velocity = ReflectXZ(@, o.position)]
    ELSE o

\* Game.checkWorldBounds(object) for object === this.player
CheckWorldBoundsXZ(o) ==
    LET p    == o.position
        dist == Sqrt(HorizontalSq(p))
    IN  IF HorizontalSq(p) > boundsRadius * boundsRadius
        THEN [o EXCEPT !.position.x = @ + TDiv(-p.x * pushbackDistance, dist),
                       !.position.z = @ + TDiv(-p.z * pushbackDistance, dist),
                       !.velocity = ReflectXZ(@, p)]
        ELSE o

BoundsInit ==
    /\ GameAside
    /\ PlayerCreated
    /\ playerDelta = 0
    /\ EnemyAside
    /\ RadarAside
    /\ GroundAside
    /\ ManeuverAside
    /\ FlashAside
    /\ TakeoffAside
    /\ BulletAside
    /\ EffectAside
    /\ WrapAside
    /\ FaultAside
    /\ BirdAside
    /\ YawAside
    /\ \E x, z \in BoundsCoordinates, vx, vz \in BoundsSpeeds, vy \in BoundsClimbs :
        LET o == [position |-> [x |-> x, z |-> z],
                  velocity |-> [x |-> vx, y |-> vy, z |-> vz]]
        IN  /\ Length3(o.velocity) <= boundsMaxSpeed
            /\ obj = [position |-> o.position, velocity |-> o.velocity,
                      passes |-> 0, before |-> o]

\* Game.update: this.checkWorldBounds(this.player)
CheckWorldBoundsCall ==
    /\ obj.passes < MaxBoundsPasses
    /\ LET o == CheckWorldBoundsXZ([position |-> obj.position, velocity |-> obj.velocity])
       IN  obj' = [position |-> o.position, velocity |-> o.velocity,
                   passes |-> obj.passes + 1,
                   before |-> [position |-> obj.position, velocity |-> obj.velocity]]
    /\ UNCHANGED <<gameVars, playerVars, enemyVars, exceptBounds>>

NextBounds == CheckWorldBoundsCall

SpecBounds == BoundsInit /\ [][NextBounds]_vars

-----------------------------------------------------------------------------
(* The boundary wrap at the head of EnemyPlane.update as a function of the   *)
(* plane's position, targetDirection and maneuver flags, followed by the     *)
(* change of direction on the plane's timer (specification SpecWrap).        *)
(* Lengths are in twentieths of a unit as for checkWorldBounds; the          *)
(* components of a direction are in thousandths.                             *)

\* EnemyPlane.update calls in one run
MaxWraps == 2

\* "worldRadius * 0.2"
newRadius == 3380

\* the horizontal and the vertical components a direction is made from before it
\* is normalized: Math.random() - 0.5 and (Math.random() - 0.5) * 0.1 of the
\* constructor and of updateRandomDirection, and the dive angle of
\* handleDivingAttack
HeadingParts == {-500, -20, 0, 20, 500}
ClimbParts == {-500, -50, 0, 50}
ManeuverFlags == {{}, {"isDiving"}, {"isEvading", "returningToCenter"}, {"isRolling"}}

Dot3(a, b) == a.x * b.x + a.y * b.y + a.z * b.z

\* Vector3.normalize, components in thousandths
Normalize(v) ==
    LET len == Length3(v)
    IN  IF len = 0 THEN [x |-> 0, y |-> 0, z |-> 0]
        ELSE [x |-> TDiv(v.x * 1000, len), y |-> TDiv(v.y * 1000, len),
              z |-> TDiv(v.z * 1000, len)]

\* EnemyPlane.update, lines 159-192.  cos and sin of atan2(z, x) are x and z
\* over the distance.
WrapAround(e) ==
    LET p    == e.position
        dist == Sqrt(HorizontalSq(p))
        t    == e.targetDirection
    IN  IF HorizontalSq(p) > boundsRadius * boundsRadius
        THEN [e EXCEPT !.position = [x |-> TDiv(-p.x * newRadius, dist),
                                     z |-> TDiv(-p.z * newRadius, dist)],
                       !.targetDirection = Normalize([x |-> -t.x, y |-> t.y, z |-> -t.z]),
                       !.flags = {}]
        ELSE e

\* "this.boundaryDetectionRadius * 0.6", boundaryDetectionRadius being
\* worldRadius * 0.7
returnRadius == 7098

\* the directions updateRandomDirection draws, before they are normalized
RetargetParts == {<<500, 50, -20>>, <<-500, -50, 500>>, <<20, 0, -500>>}
\* where position.y is: below minAltitude + 5, above altitudeWarningThreshold
\* (halfway to maxAltitude), or between the two
AltitudeBands == {"low", "mid", "high"}

\* EnemyPlane.updateRandomDirection
UpdateRandomDirection(e, parts, band) ==
    LET d == Normalize([x |-> parts[1], y |-> parts[2], z |-> parts[3]])
        y == IF band = "low" THEN TDiv(Abs(d.y) * 5, 10)
             ELSE IF band = "high" THEN TDiv(-Abs(d.y) * 75, 100)
             ELSE d.y
    IN  [e EXCEPT !.targetDirection = [d EXCEPT !.y = y]]

\* the change of direction of updateDirection, a method that nothing calls:
\* beyond returnRadius the plane heads for the centre (here without the random
\* offset and level) and ends its maneuvers
RetargetTowardCentre(e, due, parts, band) ==
    LET dist == Sqrt(HorizontalSq(e.position))
    IN  IF ~due THEN e
        ELSE IF HorizontalSq(e.position) > returnRadius * returnRadius
        THEN [e EXCEPT !.targetDirection =
                           Normalize([x |-> TDiv(-e.position.x * 1000, dist), y |-> 0,
                                      z |-> TDiv(-e.position.z * 1000, dist)]),
                       !.flags = {"returningToCenter"}]
        ELSE UpdateRandomDirection(e, parts, band)

\* EnemyPlane.update, lines 196-205: "if (now - this.lastDirectionChange >
\* this.changeDirectionTime)", due saying whether it holds
Retarget(e, due, parts, band) ==
    IF due THEN UpdateRandomDirection(e, parts, band) ELSE e

WrapInit ==
    /\ GameAside
    /\ PlayerCreated
    /\ playerDelta = 0
    /\ EnemyAside
    /\ RadarAside
    /\ GroundAside
    /\ ManeuverAside
    /\ FlashAside
    /\ TakeoffAside
    /\ BulletAside
    /\ EffectAside
    /\ BoundsAside
    /\ FaultAside
    /\ BirdAside
    /\ YawAside
    /\ \E x, z \in BoundsCoordinates, dx, dz \in HeadingParts, dy \in ClimbParts,
          flags \in ManeuverFlags :
        LET e == [position |-> [x |-> x, z |-> z],
                  targetDirection |-> Normalize([x |-> dx, y |-> dy, z |-> dz]),
                  flags |-> flags]
        IN  /\ <<dx, dy, dz>> # <<0, 0, 0>>
            /\ plane = [position |-> e.position, targetDirection |-> e.targetDirection,
                        flags |-> e.flags, wraps |-> 0, retargeted |-> FALSE,
                        before |-> e]

\* the head of EnemyPlane.update: the wrap, then the change of direction
WrapCall ==
    /\ plane.wraps < MaxWraps
    /\ LET b == [position |-> plane.position, targetDirection |-> plane.targetDirection,
                 flags |-> plane.flags]
       IN  \E due \in BOOLEAN, parts \in RetargetParts, band \in AltitudeBands :
               LET e == Retarget(WrapAround(b), due, parts, band)
               IN  plane' = [position |-> e.position,
                             targetDirection |-> e.targetDirection,
                             flags |-> e.flags, wraps |-> plane.wraps + 1,
                             retargeted |-> due, before |-> b]
    /\ UNCHANGED <<gameVars, playerVars, enemyVars, exceptWrap>>

NextWrap == WrapCall

SpecWrap == WrapInit /\ [][NextWrap]_vars

-----------------------------------------------------------------------------
(* One frame of Game.animate in which the update function of an enemy, a     *)
(* bird or an effect may throw (specification SpecFaults).  Only the control *)
(* flow is followed: which entities had their update run to completion and   *)
(* which stages of the frame ran.                                            *)

\* frames in one run
MaxFaultFrames == 3
\* update functions that throw in one frame
MaxFaultsPerFrame == 2

\* the entities at the start of a run
FaultEnemies == <<1, 2>>
FaultBirds == <<3, 4>>
FaultEffects == <<5, 6>>

Members(list) == {list[j] : j \in 1..Len(list)}

\* a loop whose body is a try / catch that removes the entity that threw:
\* the loops of updateEffects and updateBirds
ContainedLoop(list, faults) ==
    [kept    |-> SelectSeq(list, LAMBDA id : id \notin faults),
     updated |-> Members(list) \ faults,
     thrown  |-> FALSE]

\* the loop of updateEnemies, from the last enemy to the first, with no
\* try / catch: the first update that throws ends the loop
OpenLoop(list, faults) ==
    LET faulty == {j \in 1..Len(list) : list[j] \in faults}
        first  == CHOOSE j \in faulty : \A k \in faulty : k <= j
    IN  IF faulty = {} THEN [kept |-> list, updated |-> Members(list), thrown |-> FALSE]
        ELSE [kept |-> list, updated |-> {list[j] : j \in (first + 1)..Len(list)},
              thrown |-> TRUE]

\* animate -> update: updateEffects, [player], updateEnemies, updateBirds,
\* updateClouds, updateBoundaryEffects, updateRadar, render; an exception that
\* leaves a stage ends the frame in the catch of animate
FrameWithFaults(t, faults) ==
    LET fxs == ContainedLoop(t.effects, faults)
        ens == OpenLoop(t.enemies, faults)
        bds == ContainedLoop(t.birds, faults)
        all == Members(t.enemies) \cup Members(t.birds) \cup Members(t.effects)
    IN  IF ens.thrown
        THEN [t EXCEPT !.effects = fxs.kept,
                       !.n = @ + 1,
                       !.present = all,
                       !.faults = faults,
                       !.updated = fxs.updated \cup ens.updated,
                       !.ran = {"effects", "player", "enemies", "caught"}]
        ELSE [t EXCEPT !.effects = fxs.kept,
                       !.birds = bds.kept,
                       !.n = @ + 1,
                       !.present = all,
                       !.faults = faults,
                       !.updated = fxs.updated \cup ens.updated \cup bds.updated,
                       !.ran = {"effects", "player", "enemies", "birds", "clouds",
                                "boundary", "radar", "render"}]

FaultsInit ==
    /\ GameAside
    /\ PlayerCreated
    /\ playerDelta = 0
    /\ EnemyAside
    /\ RadarAside
    /\ GroundAside
    /\ ManeuverAside
    /\ FlashAside
    /\ TakeoffAside
    /\ BulletAside
    /\ EffectAside
    /\ BoundsAside
    /\ WrapAside
    /\ BirdAside
    /\ YawAside
    /\ tick = [enemies |-> FaultEnemies, birds |-> FaultBirds, effects |-> FaultEffects,
               n |-> 0, present |-> {}, faults |-> {}, updated |-> {}, ran |-> {}]

\* Game.animate, with the update functions of the entities in faults throwing
FrameWithFaultsCall ==
    /\ tick.n < MaxFaultFrames
    /\ \E faults \in SUBSET (Members(tick.enemies) \cup Members(tick.birds)
                              \cup Members(tick.effects)) :
        /\ Cardinality(faults) <= MaxFaultsPerFrame
        /\ tick' = FrameWithFaults(tick, faults)
    /\ UNCHANGED <<gameVars, playerVars, enemyVars, exceptFaults>>

NextFaults == FrameWithFaultsCall

SpecFaults == FaultsInit /\ [][NextFaults]_vars

-----------------------------------------------------------------------------
(* The birds: the release in handleEnemyDestruction and Game.updateBirds     *)
(* (specification SpecBirds).  A bird is [id, age, dist]: its age in ms and  *)
(* its distance from the player in tenths of a unit; identities are given in *)
(* the order of release, which is the order of Game.birds.                   *)

\* updateBirds passes in one run
MaxBirdPasses == 5
\* destroyed enemies that release birds in one run
MaxBirdReleases == 2

\* "distanceTo(this.player.position) > 500"
DespawnRadius == 5000

\* the flock a run starts with: its size, the age of its birds, their distance
\* from the player, and the speed at which player and birds move apart
\* (tenths of a unit per second), at most about 30 units per second
FlockSizes == {1, 13, 16}
FlockAges == {0, 14700}
FlockDistances == {1000, 4990}
FlockSpeeds == {0, 300}
\* the distance between the player and an enemy shot down
ReleaseDistances == {1000}
\* "Math.min(4, Math.floor(Math.random() * 3) + 2)"
BirdCounts == 2..MaxBirdsPerEnemy

BirdIdsOf(bs) == {bs[j].id : j \in 1..Len(bs)}

\* count times "this.birds.push(new Bird(...))", the first with identity n + 1
RECURSIVE PushBirds(_, _, _, _)
PushBirds(bs, count, n, dist) ==
    IF count = 0 THEN bs
    ELSE PushBirds(Append(bs, [id |-> n + 1, age |-> 0, dist |-> dist]), count - 1, n + 1, dist)

\* a release that does not look at the room left in Game.birds
ReleaseFlockUncapped(f, birdCount, dist) ==
    LET bs == PushBirds(f.birds, birdCount, f.released, dist)
    IN  [f EXCEPT !.birds = bs,
                  !.scene = @ \cup BirdIdsOf(bs),
                  !.rescuedBirds = @ + birdCount,
                  !.released = @ + birdCount]

\* handleEnemyDestruction, lines 1187-1196, and releaseBirds (called for a
\* positive count only): "this.rescuedBirds += count", then count birds
ReleaseFlock(f, birdCount, dist) ==
    LET availableBirdSlots == Max(0, maxBirds - Len(f.birds))
        birdsToRelease     == Min(birdCount, availableBirdSlots)
        bs                 == PushBirds(f.birds, birdsToRelease, f.released, dist)
    IN  IF birdsToRelease > 0
        THEN [f EXCEPT !.birds = bs,
                       !.scene = @ \cup BirdIdsOf(bs),
                       !.rescuedBirds = @ + birdsToRelease,
                       !.released = @ + birdsToRelease]
        ELSE f

\* Bird.update(delta), and what the flight of bird and player does to their distance
BirdUpdate(b, dt, speed) ==
    [b EXCEPT !.age = @ + dt, !.dist = @ + TDiv(speed * dt, 1000)]

\* "bird.age >= 15"
BirdTooOldAtLifetime(b) == b.age >= BirdLifetime

\* "bird.age > 15"
BirdTooOld(b) == b.age > BirdLifetime

\* updateBirds without its distance test
BirdNeverTooFar(b) == FALSE

\* "bird.position.distanceTo(this.player.position) > 500"
BirdTooFar(b) == b.dist > DespawnRadius

\* updateBirds without its soft limit
UpdateFlockNoLimit(f, dt) ==
    LET flown == [j \in 1..Len(f.birds) |-> BirdUpdate(f.birds[j], dt, f.speed)]
        kept  == SelectSeq(flown, LAMBDA b : ~BirdTooOld(b) /\ ~BirdTooFar(b))
    IN  IF Len(f.birds) = 0 THEN f
        ELSE [f EXCEPT !.birds = kept,
                       !.scene = @ \ (BirdIdsOf(flown) \ BirdIdsOf(kept))]

\* Game.updateBirds(delta)
UpdateFlock(f, dt) ==
    LET flown     == [j \in 1..Len(f.birds) |-> BirdUpdate(f.birds[j], dt, f.speed)]
        kept      == SelectSeq(flown, LAMBDA b : ~BirdTooOld(b) /\ ~BirdTooFar(b))
        softLimit == (maxBirds * 8) \div 10
        few       == IF Len(kept) > softLimit THEN DropFirst(kept, Len(kept) - softLimit)
                     ELSE kept
    IN  IF Len(f.birds) = 0 THEN f
        ELSE [f EXCEPT !.birds = few,
                       !.scene = (@ \ (BirdIdsOf(flown) \ BirdIdsOf(kept)))
                                    \ (BirdIdsOf(kept) \ BirdIdsOf(few)),
                       !.evicted = @ \cup (BirdIdsOf(kept) \ BirdIdsOf(few))]

BirdsInit ==
    /\ GameAside
    /\ PlayerCreated
    /\ playerDelta = 0
    /\ EnemyAside
    /\ RadarAside
    /\ GroundAside
    /\ ManeuverAside
    /\ FlashAside
    /\ TakeoffAside
    /\ BulletAside
    /\ EffectAside
    /\ BoundsAside
    /\ WrapAside
    /\ FaultAside
    /\ YawAside
    /\ \E n \in FlockSizes, age \in FlockAges, dist \in FlockDistances, speed \in FlockSpeeds :
        flock = [birds |-> [j \in 1..n |-> [id |-> j, age |-> age, dist |-> dist]],
                 scene |-> 1..n, rescuedBirds |-> n, speed |-> speed, released |-> n,
                 passes |-> 0, releases |-> 0, last |-> "none", evicted |-> {}]

\* Game.handleEnemyDestruction, as far as the birds go
ReleaseBirdsCall ==
    /\ flock.releases < MaxBirdReleases
    /\ \E birdCount \in BirdCounts, dist \in ReleaseDistances :
        flock' = [ReleaseFlock(flock, birdCount, dist) EXCEPT !.releases = @ + 1,
                                                              !.last = "release"]
    /\ UNCHANGED <<gameVars, playerVars, enemyVars, exceptBirds>>

\* Game.updateBirds(delta), delta at its maximum
UpdateBirdsCall ==
    /\ flock.passes < MaxBirdPasses
    /\ flock' = [UpdateFlock(flock, MaxDelta) EXCEPT !.passes = @ + 1, !.last = "pass"]
    /\ UNCHANGED <<gameVars, playerVars, enemyVars, exceptBirds>>

NextBirds ==
    \/ ReleaseBirdsCall
    \/ UpdateBirdsCall

SpecBirds == BirdsInit /\ [][NextBirds]_vars

-----------------------------------------------------------------------------
(* Player.updateRotation under the keys that pitch and turn the aircraft     *)
(* (specification SpecYaw).  Angles are in milliradians; the speed is        *)
(* Player.speed in hundredths of a unit per second.                          *)

\* updateRotation calls in one run
MaxYawTicks == 6
\* batches of key events in one run
MaxYawKeys == 2

\* Math.PI
Pi == 3142
\* Player.minSpeed
minSpeed == 500
\* Player.maxRoll = Math.PI / 2
maxRoll == 1571

\* delta of a frame (ms)
YawDeltas == {50, 100}
\* Player.speed: standing, and at the speed limit
YawSpeeds == {0, maxSpeed}
\* the keys held after a batch of key events
YawControlSets == {{}, {"left"}, {"right"}, {"left", "right"}, {"up"}}

\* the remainder operator % of JavaScript: the result has the sign of a
JsRem(a, b) == a - b * TDiv(a, b)

\* updateRotation, line 385: "((this.rotation.y + Math.PI) % (Math.PI * 2)) - Math.PI"
WrapYaw(y) == JsRem(y + Pi, Pi * 2) - Pi

\* updateRotation, lines 356-382: the roll
UpdateRoll(rz, controls, dt) ==
    IF "left" \in controls \/ "right" \in controls
    THEN LET direction  == IF "left" \in controls THEN 1 ELSE -1
             targetRoll == TDiv(direction * maxRoll * 6, 10)
         IN  rz + TDiv((targetRoll - rz) * 14 * dt, 10000)
    ELSE TDiv(rz * 855, 1000)

\* updateRotation, lines 356-385: the yaw
UpdateYaw(ry, controls, speed, dt) ==
    LET direction == IF "left" \in controls THEN 1 ELSE -1
        yawAmount == Min(TDiv(2 * dt * 3, 10), TDiv(Pi * dt, 8000))
        turned    == IF ("left" \in controls \/ "right" \in controls) /\ speed > minSpeed
                     THEN ry + direction * yawAmount
                     ELSE ry
    IN  WrapYaw(turned)

\* new Player(game), then "this.player.rotation.y = Math.PI" of Game.init
YawInit ==
    /\ GameAside
    /\ PlayerCreated
    /\ playerDelta = 0
    /\ EnemyAside
    /\ RadarAside
    /\ GroundAside
    /\ ManeuverAside
    /\ FlashAside
    /\ TakeoffAside
    /\ BulletAside
    /\ EffectAside
    /\ BoundsAside
    /\ WrapAside
    /\ FaultAside
    /\ BirdAside
    /\ turn = [rotation |-> [x |-> 0, y |-> Pi, z |-> 0], controls |-> {}, speed |-> 0,
               n |-> 0, keys |-> 0]

\* handleKeyDown / handleKeyUp of the arrow keys
YawKeyEvent ==
    /\ turn.keys < MaxYawKeys
    /\ \E held \in YawControlSets \ {turn.controls} :
        turn' = [turn EXCEPT !.controls = held, !.keys = @ + 1]
    /\ UNCHANGED <<gameVars, playerVars, enemyVars, exceptYaw>>

\* Player.update as far as the rotation goes: "this.speed =
\* this.velocity.length()", then updateRotation(delta)
YawTick ==
    /\ turn.n < MaxYawTicks
    /\ \E dt \in YawDeltas, speed \in YawSpeeds :
        turn' = [turn EXCEPT
                    !.speed = speed,
                    !.rotation = [x |-> UpdateRotation(turn.rotation.x, turn.controls, dt),
                                  y |-> UpdateYaw(turn.rotation.y, turn.controls, speed, dt),
                                  z |-> UpdateRoll(turn.rotation.z, turn.controls, dt)],
                    !.n = @ + 1]
    /\ UNCHANGED <<gameVars, playerVars, enemyVars, exceptYaw>>

NextYaw ==
    \/ YawKeyEvent
    \/ YawTick

SpecYaw == YawInit /\ [][NextYaw]_vars

-----------------------------------------------------------------------------
(* Player.update from a standstill in the air with only the throttle held    *)
(* (specification SpecTakeoff).  Lengths are in thousandths of a unit and    *)
(* speeds in thousandths of a unit per second here, finer than in the        *)
(* Player part above: the vertical speeds of this run are below a unit per   *)
(* second.  Neither the pitch keys nor the turn keys are pressed.            *)

\* Player.update calls in one run: 2 s at 60 frames per second
MaxTakeoffFrames == 120
\* delta = 1 / 60 s lies between 16 ms and 17 ms
TakeoffDeltas == {16, 17}
\* the altitude the run starts at
TakeoffStartY == 3000
\* Player.maxSpeed = 100 / 3.6, in thousandths
fineMaxSpeed == 27778
\* 9.81 * 0.7, in thousandths
fineGravity == 6867
\* the divisor of |v| * v that gives the drag (drag = 0.002), in thousandths
fineDragDivisor == 500000

\* the forces with a base lift of the full 9.81 instead of 9.81 * 0.7
FineAccelerationFullLift(t, rx, v, dt) ==
    LET fwd   == Forward(rx)
        gStep == TDiv(fineGravity * dt, 1000)
        base  == IF t > 100 THEN TDiv(9810 * dt, 1000) ELSE 0
        pitch == IF t > 100 THEN TDiv(-rx * 3 * t * 20 * dt, 1000000) ELSE 0
        speed == Length(v)
    IN  [y |-> base + pitch + TDiv(fwd.y * t * dt, 10000) - gStep
                 + TDiv(-speed * v.y, fineDragDivisor),
         z |-> TDiv(fwd.z * t * dt, 10000) + TDiv(-speed * v.z, fineDragDivisor)]

\* Player.update, lines 237-258, in thousandths: lift, thrust, gravity, drag
FineAcceleration(t, rx, v, dt) ==
    LET fwd   == Forward(rx)
        gStep == TDiv(fineGravity * dt, 1000)
        base  == IF t > 100 THEN gStep ELSE 0
        pitch == IF t > 100 THEN TDiv(-rx * 3 * t * 20 * dt, 1000000) ELSE 0
        speed == Length(v)
    IN  [y |-> base + pitch + TDiv(fwd.y * t * dt, 10000) - gStep
                 + TDiv(-speed * v.y, fineDragDivisor),
         z |-> TDiv(fwd.z * t * dt, 10000) + TDiv(-speed * v.z, fineDragDivisor)]

\* Player.update, lines 272-274, in thousandths
FineLimitSpeed(v) ==
    IF LengthSq(v) > fineMaxSpeed * fineMaxSpeed
    THEN LET len == SqrtUp(LengthSq(v))
         IN  [y |-> TDiv(v.y * fineMaxSpeed, len), z |-> TDiv(v.z * fineMaxSpeed, len)]
    ELSE v

\* Player.update(delta), lines 216-291, with only the throttle key held
TakeoffUpdate(p, dt) ==
    LET t        == ThrottleUp(p.throttle, dt)
        acc      == FineAcceleration(t, p.rotationX, p.velocity, dt)
        flying   == IF t > 500 THEN FALSE ELSE p.isGrounded
        v1       == FineLimitSpeed([y |-> p.velocity.y + acc.y, z |-> p.velocity.z + acc.z])
        landed   == p.position.y < 1000 /\ v1.y < 0
        v2       == IF landed THEN [y |-> 0, z |-> TDiv(v1.z * 95, 100)] ELSE v1
        y1       == IF landed THEN 1000 ELSE p.position.y
    IN  [p EXCEPT !.throttle = t,
                  !.isGrounded = IF landed THEN TRUE ELSE flying,
                  !.velocity = v2,
                  !.position = [y |-> y1 + TDiv(v2.y * dt, 1000),
                                z |-> p.position.z + TDiv(v2.z * dt, 1000)],
                  !.rotationX = UpdateRotation(@, {"throttle"}, dt)]

\* new Player(game) placed at (0, 3, 0), at rest and level
TakeoffInit ==
    /\ GameAside
    /\ PlayerCreated
    /\ playerDelta = 0
    /\ EnemyAside
    /\ RadarAside
    /\ GroundAside
    /\ ManeuverAside
    /\ FlashAside
    /\ BulletAside
    /\ EffectAside
    /\ BoundsAside
    /\ WrapAside
    /\ FaultAside
    /\ BirdAside
    /\ YawAside
    /\ \E dt \in TakeoffDeltas :
        takeoff = [throttle |-> 0, rotationX |-> 0,
                   position |-> [y |-> TakeoffStartY, z |-> 0],
                   velocity |-> [y |-> 0, z |-> 0], isGrounded |-> TRUE, dt |-> dt,
                   n |-> 0, rose |-> FALSE]

\* one Player.update(delta)
TakeoffTick ==
    /\ takeoff.n < MaxTakeoffFrames
    /\ LET p == TakeoffUpdate(takeoff, takeoff.dt)
       IN  takeoff' = [p EXCEPT !.n = @ + 1,
                                !.rose = @ \/ p.velocity.y > 0]
    /\ UNCHANGED <<gameVars, playerVars, enemyVars, exceptTakeoff>>

NextTakeoff == TakeoffTick

SpecTakeoff == TakeoffInit /\ [][NextTakeoff]_vars

-----------------------------------------------------------------------------
(* The colour flash of EnemyPlane.damage and the setTimeout callbacks that   *)
(* end it (specification SpecFlash).  JavaScript runs one callback at a      *)
(* time: a damage call and a timer callback never interleave, and a timer    *)
(* callback runs once its 100 ms have passed.                                *)

\* damage calls in one run
MaxFlashHits == 4
\* longest run (ms)
MaxFlashClock == 500
\* "setTimeout(..., 100)"
flashDelay == 100

\* real time between two frames
FlashSteps == {50, 100}

\* the materials of createMesh: fuselage, cockpit, wings, tail, stabilizer,
\* propeller, each with a material of its own
OriginalColors == <<"planeColor", "0x333333", "planeColor", "planeColor", "planeColor",
                    "0x333333">>

\* "child.material._originalColor = child.material.color.clone();
\* child.material.color.set(0xffffff)" for every sub-mesh
FlashWhite(f) ==
    [f EXCEPT !.saved = f.color,
              !.color = [j \in 1..Len(f.color) |-> "0xffffff"]]

\* the callback of setTimeout: "if (... child.material._originalColor) {
\* color.copy(_originalColor); delete _originalColor }" for every sub-mesh
RevertColors(f) ==
    [f EXCEPT !.color = [j \in 1..Len(f.color) |->
                            IF f.saved[j] # "none" THEN f.saved[j] ELSE f.color[j]],
              !.saved = [j \in 1..Len(f.color) |-> "none"]]

\* EnemyPlane.damage(amount) at time f.now: evade is "Math.random() < 0.7"
DamageFlash(f, amount, evade) ==
    LET f1 == [f EXCEPT !.health = Damage(@, amount)]
        f2 == FlashWhite(f1)
    IN  IF f1.health > 0
        THEN [f2 EXCEPT !.timers = Append(@, f.now + flashDelay),
                        !.isEvading = @ \/ evade]
        ELSE f1

\* new EnemyPlane(game, position)
FlashInit ==
    /\ GameAside
    /\ PlayerCreated
    /\ playerDelta = 0
    /\ EnemyAside
    /\ RadarAside
    /\ GroundAside
    /\ ManeuverAside
    /\ TakeoffAside
    /\ BulletAside
    /\ EffectAside
    /\ BoundsAside
    /\ WrapAside
    /\ FaultAside
    /\ BirdAside
    /\ YawAside
    /\ flash = [color |-> OriginalColors,
                saved |-> [j \in 1..Len(OriginalColors) |-> "none"],
                timers |-> <<>>, health |-> EnemyHealth, isEvading |-> FALSE,
                now |-> 0, hits |-> 0]

\* Game.checkBulletHits: enemy.damage(25) for a bullet that hits
FlashDamageCall ==
    /\ flash.hits < MaxFlashHits
    /\ flash.health > 0
    /\ \E evade \in BOOLEAN :
        flash' = [DamageFlash(flash, BulletDamage, evade) EXCEPT !.hits = @ + 1]
    /\ UNCHANGED <<gameVars, playerVars, enemyVars, exceptFlash>>

\* the oldest pending timer fires
FlashTimerFires ==
    /\ flash.timers # <<>>
    /\ Head(flash.timers) <= flash.now
    /\ flash' = [RevertColors(flash) EXCEPT !.timers = Tail(@)]
    /\ UNCHANGED <<gameVars, playerVars, enemyVars, exceptFlash>>

\* time passes until the next frame; a timer that is due fires first.
\* EnemyPlane.update ends an evasive maneuver after its duration
FlashTimePasses ==
    /\ flash.now < MaxFlashClock
    /\ flash.timers # <<>> => Head(flash.timers) > flash.now
    /\ \E step \in FlashSteps, over \in BOOLEAN :
        flash' = [flash EXCEPT !.now = Min(@ + step, MaxFlashClock),
                               !.isEvading = @ /\ ~over]
    /\ UNCHANGED <<gameVars, playerVars, enemyVars, exceptFlash>>

NextFlash ==
    \/ FlashDamageCall
    \/ FlashTimerFires
    \/ FlashTimePasses

SpecFlash == FlashInit /\ [][NextFlash]_vars

-----------------------------------------------------------------------------
(* The special maneuvers of an EnemyPlane together with its rotation         *)
(* (specification SpecManeuver, and SpecManeuverFair for what the repeated   *)
(* calls of update bring about).  The enemy is followed for as long as it    *)
(* lives: the number of updates is not bounded.  It flies level and has      *)
(* reached the target speed of its behaviorState, so that its altitude and   *)
(* its speed stay as they are.  What the turn step reads from                *)
(* currentDirection and targetDirection is an input of every update.         *)

\* special maneuvers the random trigger asks for in one run
MaxStarts == 1
\* bullets that hit the enemy in one run
MaxAceHits == 1
\* the widest yaw and pitch followed (mrad)
MaxEnemyYaw == 60
MaxEnemyPitch == 20

\* turnRate = 0.2 + Math.random() * 0.3 (mrad per second)
turnRate == 300

\* delta of a run (ms)
AceDeltas == {80, 100}
\* position.y: where a dive may start, and above altitudeWarningThreshold
AceAltitudes == {DiveFloor, 119500}
\* what the turn step finds, for a target straight ahead and for one above and
\* slightly to the side: aligned is "dot >= 0.99", direction is
\* Math.sign(cross.y), pitchDiff is asin(targetDirection.y) -
\* asin(currentDirection.y) in mrad, intensity is the y component of
\* currentDirection x targetDirection in thousandths
TurnInputs ==
    {[aligned |-> TRUE, direction |-> 0, pitchDiff |-> 0, intensity |-> 0],
     [aligned |-> FALSE, direction |-> 1, pitchDiff |-> 500, intensity |-> 100]}

\* Math.sin of an angle in [-pi/2, pi/2] (mrad), in thousandths
SinQuarter(x) ==
    LET x2 == TDiv(x * x, 1000)
        x3 == TDiv(x2 * x, 1000)
        x5 == TDiv(x3 * x2, 1000)
        x7 == TDiv(x5 * x2, 1000)
    IN  x - TDiv(x3, 6) + TDiv(x5, 120) - TDiv(x7, 5040)

\* Math.sin of an angle in [0, 2 pi] (mrad), in thousandths
SinTurn(x) ==
    IF x <= 1571 THEN SinQuarter(x)
    ELSE IF x <= 4712 THEN SinQuarter(3142 - x)
    ELSE SinQuarter(x - 6283)

\* handleBarrelRoll: "this.rotation.z = Math.sin(this.rollProgress * Math.PI *
\* 2) * Math.PI", rollProgress being rollTimer / rollDuration
RollAngle(timer) == TDiv(SinTurn(TDiv(6283 * timer, RollDuration)) * 3142, 1000)

\* handleBarrelRoll without "this.rotation.z = 0" at the end of the roll
RollRotationNoReset(z, before, after) ==
    IF ~before.isEvading /\ ~before.isDiving /\ before.isRolling /\ after.isRolling
    THEN RollAngle(after.rollTimer)
    ELSE z

\* rotation.z after the maneuver handlers of update: handleBarrelRoll, when
\* it is the one that ran, sets it; before and after are the enemy before and
\* after HandleManeuver
RollRotation(z, before, after) ==
    IF ~before.isEvading /\ ~before.isDiving /\ before.isRolling
    THEN IF after.isRolling THEN RollAngle(after.rollTimer) ELSE 0
    ELSE z

\* the turn step without "if (!this.isRolling)"
TurnStepAlways(rot, rolling, dt, steer) ==
    LET turnAmount == TDiv(turnRate * dt, 1000)
    IN  IF ~steer.aligned
        THEN [rot EXCEPT !.y = @ + steer.direction * turnAmount,
                         !.x = @ + TDiv(steer.pitchDiff * turnAmount * 7, 10000)]
        ELSE rot

\* update, lines 220-240: the turn toward targetDirection
TurnStep(rot, rolling, dt, steer) ==
    LET turnAmount == TDiv(turnRate * dt, 1000)
    IN  IF ~rolling /\ ~steer.aligned
        THEN [rot EXCEPT !.y = @ + steer.direction * turnAmount,
                         !.x = @ + TDiv(steer.pitchDiff * turnAmount * 7, 10000)]
        ELSE rot

\* update, lines 246-257: the banking
Bank(rot, rolling, steer) ==
    IF ~rolling
    THEN [rot EXCEPT !.z = TDiv(@ * 9, 10) + TDiv(-steer.intensity * 6, 100)]
    ELSE rot

\* this.rotation after EnemyPlane.update(delta) on the enemy e
EnemyRotation(e, dt, outside, steer) ==
    LET e1 == IF outside
              THEN [e EXCEPT !.isEvading = FALSE, !.isDiving = FALSE, !.isRolling = FALSE]
              ELSE e
        e2 == HandleManeuver(e1, dt)
        r1 == [e.rotation EXCEPT !.z = RollRotation(@, e1, e2)]
        r2 == TurnStep(r1, e2.isRolling, dt, steer)
    IN  Bank(r2, e2.isRolling, steer)

\* new EnemyPlane(game, position), some time later; rotation.y is counted
\* from the random yaw the constructor draws
AceCreated(y, speed, state, dt) ==
    LET e == NewEnemyPlane(y, speed, state, 0)
    IN  [f \in DOMAIN e \cup {"rotation", "dt", "started", "hits", "beat"} |->
            IF f = "rotation" THEN [x |-> 0, y |-> 0, z |-> 0]
            ELSE IF f = "dt" THEN dt
            ELSE IF f \in {"started", "hits", "beat"} THEN 0
            ELSE IF f = "currentSpeed" THEN TargetSpeed(e)
            ELSE e[f]]

ManeuverInit ==
    /\ GameAside
    /\ PlayerCreated
    /\ playerDelta = 0
    /\ EnemyAside
    /\ RadarAside
    /\ GroundAside
    /\ FlashAside
    /\ TakeoffAside
    /\ BulletAside
    /\ EffectAside
    /\ BoundsAside
    /\ WrapAside
    /\ FaultAside
    /\ BirdAside
    /\ YawAside
    /\ \E y \in AceAltitudes, speed \in EnemySpeeds, dt \in AceDeltas :
        ace = AceCreated(y, speed, "patrol", dt)

\* Game.updateEnemies: enemy.update(delta)
ManeuverUpdateCall ==
    /\ ace.health > 0
    /\ \E maneuver \in Maneuvers, evasion \in EvasionDurations, dive \in DiveDurations,
          playerAbove \in BOOLEAN, steer \in TurnInputs :
        /\ maneuver # "none" => ace.started < MaxStarts
        /\ \E rot \in {EnemyRotation(ace, ace.dt, FALSE, steer)} :
            /\ Abs(rot.y) <= MaxEnemyYaw
            /\ Abs(rot.x) <= MaxEnemyPitch
            /\ ace' = [EnemyUpdate(ace, ace.dt, FALSE, 0, maneuver, evasion, dive,
                                   playerAbove)
                          EXCEPT !.rotation = rot,
                                 !.started = IF maneuver # "none" THEN @ + 1 ELSE @,
                                 !.beat = 1 - @]
    /\ UNCHANGED <<gameVars, playerVars, enemyVars, exceptManeuver>>

\* Game.checkBulletHits: enemy.damage(25)
ManeuverDamageCall ==
    /\ ace.health > 0
    /\ ace.hits < MaxAceHits
    /\ \E evade \in BOOLEAN, evasion \in EvasionDurations :
        ace' = [EnemyDamage(ace, BulletDamage, evade, evasion) EXCEPT !.hits = @ + 1]
    /\ UNCHANGED <<gameVars, playerVars, enemyVars, exceptManeuver>>

NextManeuver ==
    \/ ManeuverUpdateCall
    \/ ManeuverDamageCall

SpecManeuver == ManeuverInit /\ [][NextManeuver]_vars

\* the Game calls update for every enemy in every frame, for as long as the
\* enemy lives.  An update is possible exactly while health > 0, and it
\* changes ace.beat: this is WF_vars(ManeuverUpdateCall) with its ENABLED
\* written out.
SpecManeuverFair ==
    SpecManeuver /\ ([]<>(ace.health <= 0) \/ []<><<ManeuverUpdateCall>>_vars)

-----------------------------------------------------------------------------
(* The speed of one enemy aircraft: specification SpecSpeed.  An enemy is    *)
(* followed from its construction, unhurt and flying level, for so long     *)
(* that currentSpeed reaches each target speed its behaviour state and its   *)
(* maneuver set.  The field dt of the record is the delta of the last        *)
(* update.                                                                   *)

\* 8.32 + Math.random() * 6.24: the slowest and the fastest enemy
SpeedRange == {8320, 14560}
SpeedDeltas == {50, MaxDelta}
SpeedManeuvers == {"none", "dive", "evade"}

\* new EnemyPlane(game, position)
SpeedCreated(speed, state) ==
    LET e == NewEnemyPlane(DiveFloor, speed, state, 0)
    IN  [f \in DOMAIN e \cup {"dt"} |-> IF f = "dt" THEN 0 ELSE e[f]]

SpeedInit ==
    /\ GameAside
    /\ PlayerCreated
    /\ playerDelta = 0
    /\ \E speed \in SpeedRange, state \in BehaviorStates :
        enemy = SpeedCreated(speed, state)
    /\ updates = 0
    /\ turns = 0
    /\ maneuvers = 0
    /\ LaterAside

\* Game.updateEnemies: enemy.update(delta), the enemy flying level
SpeedUpdateCall ==
    /\ enemy.health > 0
    /\ \E dt \in SpeedDeltas, maneuver \in SpeedManeuvers,
          evasion \in EvasionDurations, dive \in DiveDurations :
        /\ maneuver # "none" => maneuvers < MaxManeuvers
        /\ maneuvers' = IF maneuver # "none" THEN maneuvers + 1 ELSE maneuvers
        /\ enemy' = [EnemyUpdate(enemy, dt, FALSE, 0, maneuver, evasion, dive, FALSE)
                        EXCEPT !.dt = dt]
    /\ UNCHANGED <<gameVars, playerVars, laterVars, updates, turns>>

NextSpeed == SpeedUpdateCall

SpecSpeed == SpeedInit /\ [][NextSpeed]_vars

-----------------------------------------------------------------------------
(* The player near the runway: specification SpecGround.  The player flies   *)
(* low over the end of the runway and the ground beside it, clear of trees   *)
(* and mountains; each frame is Player.update, checkTerrainCollisions and    *)
(* the "y < -50" check of Game.update.                                       *)

\* frames of one run are not counted: the player stays inside this window
GroundMaxX == 12000
GroundMinZ == 38000
GroundMaxZ == 53000
GroundMaxY == 6000
\* Game constructor: runwayWidth = 20, runwayLength = 100
runwayWidth == 20000
runwayLength == 100000
\* Game.init: player.position.set(0, 3, runwayLength / 2 - 10)
GroundStartZ == runwayLength \div 2 - 10000

\* velocity components (thousandths per second): vertical ones up to the
\* speed limit, horizontal ones within the limit
GroundClimbs == {-(maxSpeed * 10), 0, maxSpeed * 5}
GroundDrifts == {-10000, 0, 10000}

\* Game.isPositionOverRunway(x, z), the runway in place
IsPositionOverRunway(x, z) ==
    LET halfWidth  == runwayWidth \div 2
        halfLength == runwayLength \div 2
    IN  x >= -halfWidth /\ x <= halfWidth /\ z >= -halfLength /\ z <= halfLength

GroundInit ==
    /\ GameAside
    /\ PlayerCreated
    /\ playerDelta = 0
    /\ EnemyAside
    /\ RadarAside
    /\ ManeuverAside
    /\ FlashAside
    /\ TakeoffAside
    /\ BulletAside
    /\ EffectAside
    /\ BoundsAside
    /\ WrapAside
    /\ FaultAside
    /\ BirdAside
    /\ YawAside
    /\ lander = [x |-> 0, y |-> TakeoffStartY, z |-> GroundStartZ,
                 gameOver |-> FALSE, screen |-> "none"]

\* Game.update, lines 1027-1058, with the velocity the speed limit of
\* Player.update leaves
GroundFrame ==
    /\ ~lander.gameOver
    /\ \E vx \in GroundDrifts, vy \in GroundClimbs, vz \in GroundDrifts :
        LET x1    == lander.x + TDiv(vx * MaxDelta, 1000)
            y1    == PlayerAltitude(lander.y, vy, MaxDelta)
            z1    == lander.z + TDiv(vz * MaxDelta, 1000)
            crash == TerrainCrash(y1, IF IsPositionOverRunway(x1, z1)
                                      THEN "runway" ELSE "clear")
            abyss == y1 < AbyssAltitude
        IN  /\ vx * vx + vy * vy + vz * vz <= (maxSpeed * 10) * (maxSpeed * 10)
            /\ Abs(x1) <= GroundMaxX
            /\ z1 >= GroundMinZ /\ z1 <= GroundMaxZ
            /\ y1 <= GroundMaxY
            /\ lander' = [x |-> x1, y |-> y1, z |-> z1,
                          gameOver |-> (crash # "none" \/ abyss),
                          screen |-> IF crash # "none" THEN crash
                                     ELSE IF abyss THEN "destroyed" ELSE "none"]
    /\ UNCHANGED <<gameVars, playerVars, enemyVars, exceptGround>>

NextGround == GroundFrame

SpecGround == GroundInit /\ [][NextGround]_vars

-----------------------------------------------------------------------------
(* The radar: specification SpecRadar.  Game.update calls updateRadar(delta) *)
(* at the end of every frame.  Positions are in whole units, the heading of  *)
(* the player is the pair [c, s] of cos and sin of player.mesh.rotation.y in *)
(* thousandths, blips are offsets from the centre of the display in tenths   *)
(* of a pixel.                                                               *)

\* redraws in one run
MaxRedraws == 2

\* Game constructor: radarSize = 250, radarUpdateInterval = 0.1
radarSize == 250
radarUpdateInterval == 100
\* updateRadar: fixedRadarRange = 1000
fixedRadarRange == 1000

RadarDeltas == {16, 50, MaxDelta}
\* the player at its start on the runway and near the western edge of the world
RadarPlayers == {[x |-> 0, z |-> 40], [x |-> -800, z |-> 0]}
\* headings with exact cosine and sine: 0, pi (the heading Game.init sets),
\* -pi / 2 and atan2(0.8, 0.6)
RadarHeadings ==
    {[c |-> 1000, s |-> 0], [c |-> -1000, s |-> 0], [c |-> 0, s |-> -1000],
     [c |-> 600, s |-> 800]}
\* enemies inside the world radius of 845: near the runway, 1000 units east of
\* the western player, and farther than that
RadarEnemies == {[x |-> 0, z |-> 140], [x |-> 200, z |-> 0], [x |-> 600, z |-> 500]}

\* "distance > fixedRadarRange" for whole coordinates
BeyondRadar(p, e) ==
    (e.x - p.x) * (e.x - p.x) + (e.z - p.z) * (e.z - p.z) > fixedRadarRange * fixedRadarRange

\* radarX - radarSize / 2 and radarY - radarSize / 2: cos and sin of
\* "atan2(relZ, relX) - playerRotation", times distance / fixedRadarRange *
\* radarSize / 2
BlipOf(p, e, i) ==
    LET relX == e.x - p.x
        relZ == e.z - p.z
    IN  [enemy |-> i,
         x |-> TDiv(TDiv(relX * p.c + relZ * p.s, 100) * (radarSize \div 2), fixedRadarRange),
         y |-> TDiv(TDiv(relZ * p.c - relX * p.s, 100) * (radarSize \div 2), fixedRadarRange)]

\* the loop over the enemies without its range test
RadarBlipsAll(p, es) ==
    [i \in 1..Len(es) |-> BlipOf(p, es[i], i)]

\* updateRadar, lines 2389-2447: one blip for every enemy in range
RadarBlips(p, es) ==
    LET all == [i \in 1..Len(es) |-> BlipOf(p, es[i], i)]
    IN  SelectSeq(all, LAMBDA b : ~BeyondRadar(p, es[b.enemy]))

\* Game.updateRadar(delta), the radar active
UpdateRadar(r, dt, p, es) ==
    LET t == r.radarTimer + dt
    IN  IF t < radarUpdateInterval THEN [r EXCEPT !.radarTimer = t]
        ELSE [r EXCEPT !.radarTimer = 0, !.blips = RadarBlips(p, es),
                       !.redraws = @ + 1, !.waited = t,
                       !.player = p, !.enemies = es]

RadarInit ==
    /\ GameAside
    /\ PlayerCreated
    /\ playerDelta = 0
    /\ EnemyAside
    /\ GroundAside
    /\ ManeuverAside
    /\ FlashAside
    /\ TakeoffAside
    /\ BulletAside
    /\ EffectAside
    /\ BoundsAside
    /\ WrapAside
    /\ FaultAside
    /\ BirdAside
    /\ YawAside
    /\ radar = [radarTimer |-> 0, blips |-> <<>>, redraws |-> 0, waited |-> 0,
                player |-> [x |-> 0, z |-> 0, c |-> 0, s |-> 0], enemies |-> <<>>]

\* Game.update, line 1076: updateRadar(delta), with the player and two
\* enemies where the frame has put them
RadarUpdateCall ==
    /\ radar.redraws < MaxRedraws
    /\ \E dt \in RadarDeltas, at \in RadarPlayers, h \in RadarHeadings,
          e1 \in RadarEnemies, e2 \in RadarEnemies :
        radar' = UpdateRadar(radar, dt, [x |-> at.x, z |-> at.z, c |-> h.c, s |-> h.s],
                             <<e1, e2>>)
    /\ UNCHANGED <<gameVars, playerVars, enemyVars, exceptRadar>>

NextRadar == RadarUpdateCall

SpecRadar == RadarInit /\ [][NextRadar]_vars

-----------------------------------------------------------------------------
(* Claims about the Game driver (specification Spec) *)

Range(s) == {s[j] : j \in 1..Len(s)}
Occurrences(s, x) == Cardinality({j \in 1..Len(s) : s[j] = x})
GameplayStages == {"player", "enemy", "refill", "birds", "boundary", "radar"}

\* C1: after every updateEnemies pass (so whenever the enemy loop and the
\* population check are not in progress, the end of the frame included) the
\* number of enemies equals maxEnemies, whatever was hit or destroyed.
C1_PopulationAtTarget ==
    pc # "enemies" => Len(enemies) = maxEnemies

\* C1 witness: a pass in which an enemy was destroyed has just finished.
C1_Witness ==
    /\ pc = "birds"
    /\ Len(destr) >= 1
    /\ destr[Len(destr)].id \in 1..maxEnemies
    /\ \E k \in 1..Len(enemies) : enemies[k].id = nextId - 1 /\ enemies[k].id > maxEnemies
    /\ \E j \in 1..Len(effects) : effects[j].kind = "explosion" /\ effects[j].lived = 0

\* C2: destruction handling runs exactly once per enemy, at the hit that first
\* brings its health to 0 or below, i.e. hit number ceil(EnemyHealth / 25);
\* that run creates one explosion, removes the enemy once and spawns one
\* replacement; no enemy whose health is 0 or below is left in the list.
C2_DestroyedExactlyOnce ==
    /\ \A a \in 1..Len(destr) :
          /\ destr[a].hits = (EnemyHealth + BulletDamage - 1) \div BulletDamage
          /\ destr[a].health <= 0
          /\ destr[a].health + BulletDamage > 0
          /\ destr[a].explosions = 1
          /\ destr[a].removed = 1
          /\ destr[a].spawned = 1
          /\ \A b \in 1..Len(destr) : destr[b].id = destr[a].id => a = b
          /\ \A k \in 1..Len(enemies) : enemies[k].id # destr[a].id
    /\ \A k \in 1..Len(enemies) : enemies[k].health > 0

\* C2 witness: an enemy has been destroyed by bullet hits.
C2_Witness ==
    \E a \in 1..Len(destr) : destr[a].hits * BulletDamage >= EnemyHealth

\* C3 (as claimed): whenever a frame has run that started with the counter at
\* 100 or more, the victory screen has been shown, exactly once.  (The counter
\* changes in the enemy stage only, so a finished frame without that stage
\* started with the current counter.)
C3_VictoryOnceTargetReached ==
    (pc = "idle" /\ frames > 0 /\ rescuedBirds >= VictoryTarget
        /\ "enemy" \notin Range(stageLog))
    => Occurrences(screens, "victory") = 1

\* C4: gameOver is never reset, and at most one terminal screen is ever shown.
C4_GameOverTerminal ==
    /\ [](Len(screens) <= 1)
    /\ [][gameOver => gameOver']_vars

\* C4 witness: a frame has run after the game ended, one screen is up.
C4_Witness ==
    /\ gameOver
    /\ pc = "idle"
    /\ stageLog = <<"effects">>
    /\ Len(screens) = 1

\* C5 (as claimed): once gameOver is set nothing of the gameplay runs any more,
\* neither in the rest of that frame nor in a later frame.
C5_NoGameplayOnceOver ==
    /\ \A a \in 1..Len(stageLog) : \A b \in 1..Len(stageLog) :
          (stageLog[a] \in {"gameover", "victory"} /\ b > a)
              => stageLog[b] \notin GameplayStages
    /\ (gameOver /\ "gameover" \notin Range(stageLog))
          => Range(stageLog) \cap GameplayStages = {}

\* C6: updateEffects runs exactly once in every frame, whether the game runs
\* or is over: every effect has had its update function called once per frame
\* since it was created, and an effect whose update returned false is gone.
C6_EffectsUpdatedOncePerFrame ==
    /\ frames > 0 => Occurrences(stageLog, "effects") = 1
    /\ \A j \in 1..Len(effects) :
          /\ effects[j].calls = effects[j].lived
          /\ effects[j].age < Duration(effects[j].kind)

\* C6 witness: the game is over and an explosion is still being animated.
C6_Witness ==
    /\ gameOver
    /\ stageLog = <<"effects">>
    /\ \E j \in 1..Len(effects) : effects[j].kind = "explosion" /\ effects[j].calls >= 2

-----------------------------------------------------------------------------
(* Claims about the enemy aircraft (specification SpecEnemy) *)

\* C7 (as claimed): after any update call position.y lies between minAltitude
\* and maxAltitude.
C7_AltitudeWithinLimits ==
    updates >= 1 => (enemy.y >= minAltitude /\ enemy.y <= maxAltitude)

\* C7 (amended): after any update call position.y is at most maxAltitude, and
\* it is at least minAltitude unless the enemy is in a diving attack.
C7_AltitudeWithinLimitsUnlessDiving ==
    updates >= 1 =>
        /\ enemy.y <= maxAltitude
        /\ ~enemy.isDiving => enemy.y >= minAltitude

\* C7 witness: a dive took the enemy below minAltitude, the dive has ended and
\* the update that ended it has put the enemy back on minAltitude.
C7_Witness ==
    /\ updates >= 2
    /\ enemy.diveDuration > 0
    /\ enemy.diveTimer > enemy.diveDuration
    /\ ~enemy.isDiving
    /\ enemy.y = minAltitude

\* C8 (as claimed): at most one of isEvading, isDiving, isRolling is set at any
\* time.
C8_OneManeuverAtATime ==
    Cardinality(Flags(enemy)) <= 1

-----------------------------------------------------------------------------
(* Claims about the player's flight (specification SpecPlayer) *)

\* C9: throttle stays within [0, 1] whatever the delta and whatever keys are
\* held, the throttle and the brake key together included.
C9_ThrottleInRange ==
    player.throttle >= 0 /\ player.throttle <= 1000

\* C9 witness: throttle and brake are both held and the throttle, having grown
\* for several updates, sits at its upper limit.
C9_Witness ==
    /\ player.controls = {"throttle", "brake"}
    /\ ticks > 5
    /\ playerDelta > 0
    /\ player.throttle = 1000

\* C10 (as claimed): the player's speed never exceeds maxSpeed, neither after
\* Player.update nor after checkWorldBounds and updateBoundaryEffects.
C10_SpeedWithinMax ==
    LengthSq(player.velocity) <= maxSpeed * maxSpeed

-----------------------------------------------------------------------------
(* Claims about the player's gun (specification SpecBullets) *)

Present(g, k) == k \in BulletIds(g.bullets)

\* C11 as stated: a bullet fired at t0 that stays inside the world is in
\* Player.bullets after every Player.update at a time in [t0, t0 + 3 s) and
\* absent after every Player.update at a time >= t0 + 3 s.
C11_PresentForLifetime ==
    \A k \in 1..gun.fired :
        k \notin gun.left =>
            /\ now - gun.log[k] < BulletLifetime => Present(gun, k)
            /\ now - gun.log[k] >= BulletLifetime => ~Present(gun, k)

\* C11, amended: a bullet fired at t0 that stays inside the world and is not
\* evicted by the cap of 20 bullets is in Player.bullets after every
\* Player.update at a time in [t0, t0 + 3 s] and absent after every
\* Player.update at a time > t0 + 3 s; a bullet that left the world or was
\* evicted by the cap is absent; a removed bullet never reappears, and running
\* the removal again at the same time changes nothing.
C11_PresentForLifetimeUnlessEvicted ==
    /\ [](/\ \A k \in 1..gun.fired :
                IF k \in gun.left \cup gun.evicted THEN ~Present(gun, k)
                ELSE Present(gun, k) <=> now - gun.log[k] <= BulletLifetime
          /\ gun.fired > 0 => PlayerUpdateBullets(gun, now, 0) = gun)
    /\ [][\A k \in 1..gun.fired : ~Present(gun, k) => ~Present(gun', k)]_vars

\* a run in which one bullet was evicted by the cap before its time and another
\* one, never evicted, lived for 3 s and was then removed
C11_Witness ==
    /\ gun.evicted # {}
    /\ \E k \in 1..gun.fired :
        /\ k \notin gun.left \cup gun.evicted
        /\ now - gun.log[k] > BulletLifetime
        /\ ~Present(gun, k)

\* C12: after every Player.update Player.bullets holds at most 20 bullets, in
\* firing order, and exactly the meshes of these bullets are in the scene; the
\* bullets evicted by the cap are older than every bullet kept, and an eviction
\* leaves exactly 20 bullets.
C12_BulletCap ==
    /\ [](/\ Len(gun.bullets) <= MAX_BULLETS
          /\ gun.scene = BulletIds(gun.bullets)
          /\ \A i, j \in 1..Len(gun.bullets) : i < j => gun.bullets[i].id < gun.bullets[j].id
          /\ \A e \in gun.evicted : \A j \in 1..Len(gun.bullets) : e < gun.bullets[j].id)
    /\ [][gun'.evicted # gun.evicted => Len(gun'.bullets) = MAX_BULLETS]_vars

\* the cap has evicted a bullet
C12_Witness ==
    /\ gun.evicted # {}
    /\ Len(gun.bullets) = MAX_BULLETS

\* C20: Player.shoot called less than bulletCooldown after the last shot changes
\* nothing; otherwise it appends exactly one bullet, created now, and sets
\* lastShotTime to now.  Any two bullets ever fired were created at least
\* bulletCooldown apart.
C20_ShootCooldown ==
    /\ [][now' # now =>
            LET shot == PlayerShoot(gun, now', nose)
            IN  IF now' - gun.lastShotTime < bulletCooldown
                THEN /\ shot = gun
                     /\ gun'.fired = gun.fired
                     /\ gun'.lastShotTime = gun.lastShotTime
                ELSE /\ shot.bullets = Append(gun.bullets, [id |-> gun.fired + 1,
                                                            createdAt |-> now', pos |-> nose,
                                                            mesh |-> TRUE])
                     /\ shot.lastShotTime = now'
                     /\ gun.shoot => gun'.fired = gun.fired + 1 /\ gun'.lastShotTime = now']_vars
    /\ [](\A i, j \in 1..gun.fired : i < j => gun.log[j] - gun.log[i] >= bulletCooldown)

\* the fire key was held down over frames 50 ms apart and two bullets were fired:
\* the call of shoot in between was refused
C20_Witness ==
    /\ gunStep = 50
    /\ triggerEvents = 1
    /\ gun.shoot
    /\ gun.fired >= 2

-----------------------------------------------------------------------------
(* Claims about the effect list (specification SpecEffects) *)

\* C13 as stated: the number of active effects never exceeds maxEffects (30) in
\* any state between operations.
C13_EffectsNeverExceedCap == Len(fx.effects) <= maxEffects

\* C13, amended: at the end of every updateEffects pass the number of active
\* effects is at most maxEffects; adding an effect only appends, so the list can
\* be longer between passes; the effects the cap removes are older than every
\* effect that stays.
C13_EffectsCappedAfterPass ==
    /\ [](/\ fx.last = "pass" => Len(fx.effects) <= maxEffects
          /\ \A i, j \in 1..Len(fx.effects) : i < j => fx.effects[i].id < fx.effects[j].id
          /\ \A e \in fx.capped : \A j \in 1..Len(fx.effects) : e < fx.effects[j].id)
    /\ [][fx'.adds # fx.adds => Len(fx'.effects) = Len(fx.effects) + 1]_vars

\* a pass has cut a list of more than 30 effects down to the 30 newest
C13_Witness ==
    /\ fx.last = "pass"
    /\ fx.capped # {}
    /\ Len(fx.effects) = maxEffects

-----------------------------------------------------------------------------
(* Claims about the world boundary (specifications SpecPlayer and SpecBounds) *)

C14_BoundsPassPullsInward ==
    [][HorizontalSq(obj.position) > boundsRadius * boundsRadius =>
          /\ HorizontalSq(obj'.position) < HorizontalSq(obj.position)
          /\ obj'.position.x * obj.position.x + obj'.position.z * obj.position.z > 0
          /\ OutwardDot(obj'.velocity, obj.position) <= OutwardDot(obj.velocity, obj.position)
          /\ OutwardDot(obj.velocity, obj.position) > 0 =>
                OutwardDot(obj'.velocity, obj.position) <= 0
          /\ OutwardDot(obj.velocity, obj.position) <= 0 => obj'.velocity = obj.velocity]_vars

\* a pass has found the player outside the world and flying outward
C14_Witness ==
    /\ obj.passes > 0
    /\ HorizontalSq(obj.before.position) > boundsRadius * boundsRadius
    /\ OutwardDot(obj.before.velocity, obj.before.position) > 0
    /\ obj.before.position.x # 0
    /\ obj.before.position.z # 0
    /\ obj.velocity # obj.before.velocity

\* C16: when EnemyPlane.update starts with the enemy's horizontal distance above
\* worldRadius, the enemy ends up at distance 0.2 worldRadius (to a twentieth of
\* a unit) on the opposite side of the centre, and the dot product of the new
\* targetDirection with the old one is negative.
C16_WrapReversesDirection ==
    [][HorizontalSq(plane.position) > boundsRadius * boundsRadius =>
          /\ Abs(Sqrt(HorizontalSq(plane'.position)) - newRadius) <= 1
          /\ plane'.position.x * plane.position.x + plane'.position.z * plane.position.z < 0
          /\ Dot3(plane'.targetDirection, plane.targetDirection) < 0]_vars

-----------------------------------------------------------------------------
(* Claims about faults in a frame (specification SpecFaults) *)

\* C17: when the update of an enemy, a bird or an effect throws during a frame,
\* every other enemy, bird and effect is still updated in that frame, and
\* updateBoundaryEffects and updateRadar still run.
C17_FaultContained ==
    tick.faults # {} =>
        /\ (tick.present \ tick.faults) \subseteq tick.updated
        /\ {"boundary", "radar"} \subseteq tick.ran

-----------------------------------------------------------------------------
(* Claims about the birds (specification SpecBirds) *)

\* C18: after every updateBirds pass no bird left in Game.birds is older than
\* 15 s or farther than 500 units from the player, and the scene holds the
\* meshes of exactly the birds in Game.birds: every bird that was too old or too
\* far has been taken out of both.
C18_NoOldOrFarBirdAfterPass ==
    /\ flock.last = "pass" =>
          \A j \in 1..Len(flock.birds) :
              /\ flock.birds[j].age <= BirdLifetime
              /\ flock.birds[j].dist <= DespawnRadius
    /\ flock.scene = BirdIdsOf(flock.birds)

\* a pass has removed a bird that was too far away and left younger, nearer ones
C18_Witness ==
    /\ flock.last = "pass"
    /\ flock.speed > 0
    /\ flock.evicted = {}
    /\ flock.birds # <<>>
    /\ \E k \in 1..flock.released :
          k \notin BirdIdsOf(flock.birds) /\ flock.passes * MaxDelta < BirdLifetime - 14700

\* C19 as stated: a bird whose age is below 15 s and that is within 500 units of
\* the player is still in Game.birds after updateBirds, whatever other birds
\* are released meanwhile.
C19_BirdKeptForLifetime ==
    [][flock'.passes # flock.passes =>
          \A j \in 1..Len(flock.birds) :
              LET b == BirdUpdate(flock.birds[j], MaxDelta, flock.speed)
              IN  (b.age < BirdLifetime /\ b.dist <= DespawnRadius)
                      => b.id \in BirdIdsOf(flock'.birds)]_vars

\* C19, amended: a bird whose age is at most 15 s and that is within 500 units
\* of the player after its update is still in Game.birds after updateBirds,
\* unless more than 16 such birds are left: then the pass also removes the
\* oldest of them (the front of the list) until 16 are left.  A bird older than
\* 15 s is removed.
C19_BirdKeptUnlessEvicted ==
    [][flock'.passes # flock.passes =>
          /\ \A j \in 1..Len(flock.birds) :
                LET b == BirdUpdate(flock.birds[j], MaxDelta, flock.speed)
                IN  /\ (b.age <= BirdLifetime /\ b.dist <= DespawnRadius
                            /\ b.id \notin flock'.evicted)
                        => b.id \in BirdIdsOf(flock'.birds)
                    /\ b.age > BirdLifetime => b.id \notin BirdIdsOf(flock'.birds)
          /\ flock'.evicted # flock.evicted =>
                /\ Len(flock'.birds) = (maxBirds * 8) \div 10
                /\ \A e \in flock'.evicted : \A k \in 1..Len(flock'.birds) :
                      e < flock'.birds[k].id]_vars

\* a run in which a pass that found more than 16 birds has removed the oldest
\* before their time, and a bird that was never evicted and stayed near the
\* player was removed once it was older than 15 s
C19_Witness ==
    /\ flock.last = "pass"
    /\ flock.evicted # {}
    /\ flock.speed = 0
    /\ \E k \in 1..flock.released :
          k \notin flock.evicted /\ k \notin BirdIdsOf(flock.birds)

-----------------------------------------------------------------------------
(* Claims about bullet hits and destructions *)

RECURSIVE SumSeq(_)
SumSeq(s) == IF s = <<>> THEN 0 ELSE Head(s) + SumSeq(Tail(s))

\* the health an enemy of this state has after the step: as listed in the next
\* state or, once it is gone, as handleEnemyDestruction found it
HealthAfter(id) ==
    IF \E j \in 1..Len(enemies') : enemies'[j].id = id
    THEN enemies'[CHOOSE j \in 1..Len(enemies') : enemies'[j].id = id].health
    ELSE destr'[CHOOSE a \in 1..Len(destr') : destr'[a].id = id].health

\* the health all enemies together lose in a step
HealthRemoved ==
    SumSeq([k \in 1..Len(enemies) |-> enemies[k].health - HealthAfter(enemies[k].id)])

\* the bullets a step removes by hits: updateEnemies removes bullets in
\* checkBulletHits only
BulletsHit == IF pc = "enemies" THEN Len(bullets) - Len(bullets') ELSE 0

\* C21: a bullet damages at most one enemy in its life.  In every step the
\* health removed from the enemies is 25 times the number of bullets removed
\* by hits, every hit adds one hit indicator, and a bullet that is gone never
\* comes back: a bullet that appears is a new one, with an identity no bullet
\* had before.
C21_OneHitPerBullet ==
    /\ [](\A j \in 1..Len(bullets) : bullets[j].id <= shots)
    /\ [][/\ HealthRemoved = BulletDamage * BulletsHit
          /\ pc = "enemies"
               => CountKind(effects', "hit") - CountKind(effects, "hit") = BulletsHit
          /\ \A j \in 1..Len(bullets') :
               (\A k \in 1..Len(bullets) : bullets[k].id # bullets'[j].id)
                   => bullets'[j].id > shots]_vars

\* C21 witness: two bullets have hit in this frame, one enemy each; both
\* bullets are gone and both hit indicators are fresh.
C21_Witness ==
    /\ pc = "birds"
    /\ shots >= 2
    /\ Len(bullets) = 0
    /\ Cardinality({j \in 1..Len(effects) :
                      effects[j].kind = "hit" /\ effects[j].lived = 0}) = 2
    /\ \E a \in 1..Len(enemies) : \E b \in 1..Len(enemies) :
          /\ a # b
          /\ enemies[a].health = EnemyHealth - BulletDamage
          /\ enemies[b].health = 50 - BulletDamage

\* C22 (as claimed): every destruction releases between 2 and 4 birds and
\* adds just that number to rescuedBirds, so every destruction increases the
\* counter.
C22_EveryDestructionReleasesBirds ==
    [][flock'.releases = flock.releases + 1
         => /\ Len(flock'.birds) - Len(flock.birds) \in 2..MaxBirdsPerEnemy
            /\ flock'.rescuedBirds - flock.rescuedBirds = Len(flock'.birds) - Len(flock.birds)
            /\ flock'.rescuedBirds > flock.rescuedBirds]_vars

\* C22 (amended): every destruction releases min(k, room) birds, for a k
\* between 2 and 4 and room = max(0, maxBirds - birds.length) the room left in
\* the bird list, and adds just that number to rescuedBirds; the counter
\* increases whenever there is room, and never decreases.
C22_DestructionReleasesUpToRoom ==
    [][flock'.releases = flock.releases + 1
         => LET room     == Max(0, maxBirds - Len(flock.birds))
                released == Len(flock'.birds) - Len(flock.birds)
            IN  /\ \E k \in 2..MaxBirdsPerEnemy : released = Min(k, room)
                /\ flock'.rescuedBirds - flock.rescuedBirds = released
                /\ room > 0 => flock'.rescuedBirds > flock.rescuedBirds
                /\ flock'.rescuedBirds >= flock.rescuedBirds]_vars

\* C22 witness: two enemies were destroyed in one frame; the first release
\* filled the bird list, the second found no room and rescued nothing.
C22_Witness ==
    /\ flock.last = "release"
    /\ flock.releases = 2
    /\ flock.passes = 0
    /\ Len(flock.birds) = maxBirds
    /\ flock.rescuedBirds = maxBirds
    /\ flock.released = maxBirds

-----------------------------------------------------------------------------
(* Claims about the order of a frame *)

CrashKinds == {"ground", "mountain", "tree"}

\* C23: whenever a fatal collision (ground, mountain, tree) sets gameOver, the
\* same frame has created exactly one explosion at the player's position, and
\* it has done so before it set gameOver.
C23_OneExplosionBeforeCrash ==
    [][(~gameOver /\ gameOver' /\ Len(screens') > Len(screens)
            /\ screens'[Len(screens')] \in CrashKinds)
         => /\ CountKind(effects', "explosion") = CountKind(effects, "explosion") + 1
            /\ Cardinality({a \in 1..Len(opLog') : opLog'[a] = Call("createExplosion", 0)}) = 1
            /\ \E a \in 2..Len(opLog') :
                  /\ opLog'[a] = Call("gameOver", 0)
                  /\ opLog'[a - 1] = Call("createExplosion", 0)
                  /\ \A b \in 1..(a - 1) : opLog'[b].op # "gameOver"]_vars

\* C23 witness: the player has just flown into a tree; the explosion of this
\* frame is in the effect list and the crash screen is up.
C23_Witness ==
    /\ gameOver
    /\ pc = "enemies"
    /\ screens = <<"tree">>
    /\ Call("createExplosion", 0) \in Range(opLog)
    /\ \E j \in 1..Len(effects) : effects[j].kind = "explosion" /\ effects[j].lived = 0

-----------------------------------------------------------------------------
(* Claims about the boundary warning and the push force *)

\* C24: after each updateBoundaryEffects the warning is active exactly when
\* the player is farther out than boundaryWarningRadius; the sound is started
\* only by a pass that turns the warning on and stopped only by a pass that
\* turns it off, so starts and stops alternate: the sound plays exactly while
\* the warning is active, and there has been one start more than stops while
\* it is active and as many starts as stops while it is not.
C24_WarningFollowsDistance ==
    /\ []((ppc = "update" /\ ticks > 0)
            => (warning.active <=> Abs(player.position.z) > boundaryWarningRadius))
    /\ [](/\ warning.playing = warning.active
          /\ warning.starts - warning.stops = IF warning.active THEN 1 ELSE 0)
    /\ [][/\ warning'.starts \in {warning.starts, warning.starts + 1}
          /\ warning'.stops \in {warning.stops, warning.stops + 1}
          /\ warning'.starts # warning.starts => ~warning.active /\ warning'.active
          /\ warning'.stops # warning.stops => warning.active /\ ~warning'.active]_vars

\* C24 witness: the player has stayed in the warning zone for several frames,
\* left it and entered it again: the sound has started twice and stopped once.
C24_Witness ==
    /\ ppc = "update"
    /\ warning.active
    /\ warning.starts = 2
    /\ warning.stops = 1
    /\ ticks >= 8

\* C25 (as claimed): beyond boundaryPushRadius a force toward the centre,
\* proportional to (distance - boundaryPushRadius), is handed to applyForce,
\* and the next Player.update adds it to the forces that change the velocity.
C25_PushForceChangesVelocity ==
    /\ []((ppc = "update" /\ ticks > 0
             /\ Abs(player.position.z) > boundaryPushRadius
             /\ Abs(player.position.z) <= TDiv(worldRadius * 96, 100))
            => /\ player.applied.z * player.position.z < 0
               /\ Abs(player.applied.z)
                    = TDiv((Abs(player.position.z) - boundaryPushRadius) * 3, 2))
    /\ [][(ppc = "update" /\ ppc' = "bounds" /\ player.applied # Zero2)
            => player'.velocity
                 = PlayerUpdateFrom(player, playerDelta, player.applied).velocity]_vars

\* the entries of opLog that are the call op
CallsOf(op) == {a \in 1..Len(opLog) : opLog[a].op = op}

\* C26: in every frame Player.update (movement, firing, updateBullets) has
\* returned before any checkBulletHits runs, and checkBulletHits for an enemy
\* runs only after that enemy's own update of the frame and before anything
\* moves the enemy again: it reads the position the update left.
C26_HitCheckAfterUpdates ==
    \A a \in CallsOf("checkBulletHits") :
        /\ \E b \in 1..(a - 1) : opLog[b] = Call("Player.update", 0)
        /\ \A b \in a..Len(opLog) : opLog[b] # Call("Player.update", 0)
        /\ \E b \in 1..(a - 1) : opLog[b] = Call("EnemyPlane.update", opLog[a].id)
        /\ \A b \in a..Len(opLog) : opLog[b] # Call("EnemyPlane.update", opLog[a].id)

\* C26 witness: both enemies have been updated and hit-checked in this frame,
\* and a bullet fired in this frame has hit.
C26_Witness ==
    /\ pc = "birds"
    /\ Cardinality(CallsOf("checkBulletHits")) = maxEnemies
    /\ sinceShot = 0
    /\ \E j \in 1..Len(effects) : effects[j].kind = "hit" /\ effects[j].lived = 0

\* the place of a call in the order of stages as claimed: player, enemies,
\* birds, bullet-enemy collisions, terrain and world boundary, effects, radar
ClaimedRank(c) ==
    CASE c.op = "Player.update" -> 1
      [] c.op = "EnemyPlane.update" -> 2
      [] c.op = "updateBirds" -> 3
      [] c.op = "checkBulletHits" -> 4
      [] c.op \in {"checkTerrainCollisions", "checkWorldBounds", "updateBoundaryEffects"} -> 5
      [] c.op = "updateEffects" -> 6
      [] c.op = "updateRadar" -> 7
      [] OTHER -> 0

\* the place of a call in the order of stages of Game.update
CodeRank(c) ==
    CASE c.op = "updateEffects" -> 1
      [] c.op = "Player.update" -> 2
      [] c.op \in {"checkWorldBounds", "checkTerrainCollisions"} /\ c.id = 0 -> 3
      [] c.op \in {"EnemyPlane.update", "checkBulletHits"} -> 4
      [] c.op = "checkWorldBounds" /\ c.id # 0 -> 4
      [] c.op = "updateBirds" -> 5
      [] c.op = "updateBoundaryEffects" -> 6
      [] c.op = "updateRadar" -> 7
      [] OTHER -> 0

\* C27 (as claimed): the stages of a frame run in the order player, all
\* enemies, all birds, bullet-enemy collisions, terrain and world-boundary
\* checks, effects, radar; no collision is resolved before all enemies and all
\* birds have been integrated.
C27_StagesInClaimedOrder ==
    \A a \in 1..Len(opLog) : \A b \in 1..Len(opLog) :
        (a < b /\ ClaimedRank(opLog[a]) # 0 /\ ClaimedRank(opLog[b]) # 0)
            => ClaimedRank(opLog[a]) <= ClaimedRank(opLog[b])

\* C27 (amended): the stages of a frame run in the order effects, player,
\* world-boundary and terrain checks of the player, then for each enemy in
\* turn its integration directly followed by its own bullet collisions, then
\* all birds, boundary effects, radar; no collision with an enemy is resolved
\* before the player and that enemy have been integrated.
C27_StagesInCodeOrder ==
    /\ \A a \in 1..Len(opLog) : \A b \in 1..Len(opLog) :
          (a < b /\ CodeRank(opLog[a]) # 0 /\ CodeRank(opLog[b]) # 0)
              => CodeRank(opLog[a]) <= CodeRank(opLog[b])
    /\ \A a \in CallsOf("checkBulletHits") :
          /\ a > 2
          /\ opLog[a - 1] = Call("checkWorldBounds", opLog[a].id)
          /\ opLog[a - 2] = Call("EnemyPlane.update", opLog[a].id)
          /\ \E b \in 1..(a - 1) : opLog[b] = Call("Player.update", 0)

\* C27 witness: a whole frame has run in which a bullet hit an enemy before
\* the other enemy and the birds were updated.
C27_Witness ==
    /\ pc = "idle"
    /\ ~gameOver
    /\ Len(opLog) > 0
    /\ opLog[Len(opLog)] = Call("updateRadar", 0)
    /\ Cardinality(CallsOf("EnemyPlane.update")) = maxEnemies
    /\ \E a \in CallsOf("checkBulletHits") : \E b \in CallsOf("EnemyPlane.update") : a < b
    /\ enemies[maxEnemies].hits > 0
    /\ \E j \in 1..Len(effects) : effects[j].kind = "hit" /\ effects[j].lived = 0

-----------------------------------------------------------------------------
(* Claims about the player's rotation (specification SpecYaw) *)

\* C28 (as claimed): after every updateRotation the yaw rotation.y is greater
\* than -pi and at most pi.
C28_YawWrapped ==
    turn.n > 0 => (turn.rotation.y > -Pi /\ turn.rotation.y <= Pi)

-----------------------------------------------------------------------------
(* Claims about the scene (specification SpecEffects) *)

\* C29 (as claimed, for the effects): the scene holds no mesh of an effect
\* that is no longer in effectsToUpdate; an effect that leaves the list, by
\* expiry or by the cap, leaves the scene in the same step.
C29_SceneHoldsOnlyActive ==
    fx.scene \subseteq EffectIds(fx.effects)

-----------------------------------------------------------------------------
(* Claims about the time step (specification Spec) *)

\* C30: the delta that Game.update and every update below it receive lies
\* between 0 and 0.1 s, however long the real time between two frames was.
C30_DeltaClamped ==
    /\ delta >= 0
    /\ delta <= MaxDelta
    /\ frames > 0 => delta = Min(frameTime, MaxDelta)

\* a frame that came a second after the previous one runs its update with
\* delta = 0.1 s
C30_Witness ==
    /\ frames > 0
    /\ frameTime > MaxDelta
    /\ delta = MaxDelta
    /\ Len(opLog) > 1

-----------------------------------------------------------------------------
(* Claims about the take-off (specification SpecTakeoff) *)

\* C31 (as claimed): from (0, 3, 0) at rest and level, 2 s of updates at
\* delta = 1/60 with only the throttle held end with isGrounded false and the
\* altitude above 3, the vertical velocity having been positive on the way.
C31_ThrottleAloneClimbs ==
    takeoff.n = MaxTakeoffFrames =>
        /\ ~takeoff.isGrounded
        /\ takeoff.position.y > TakeoffStartY
        /\ takeoff.rose

\* C31 (amended): the run ends with isGrounded false (it is false from the
\* 16th update on), but the aircraft does not climb: the vertical velocity is
\* never positive, the altitude stays below 3 after the first update and
\* above 2.7, and at the end the vertical velocity is within 0.01 of zero.
C31_ThrottleAloneHoldsLevel ==
    /\ takeoff.velocity.y <= 0
    /\ ~takeoff.rose
    /\ takeoff.position.y > 2700
    /\ takeoff.n > 0 => takeoff.position.y < TakeoffStartY
    /\ takeoff.n >= 16 => ~takeoff.isGrounded
    /\ takeoff.n = MaxTakeoffFrames => takeoff.velocity.y >= -10

\* the end of the run: in the air, below the altitude of the start
C31_Witness ==
    /\ takeoff.n = MaxTakeoffFrames
    /\ ~takeoff.isGrounded
    /\ takeoff.throttle = 1000
    /\ takeoff.position.y < TakeoffStartY

-----------------------------------------------------------------------------
(* Claims about the change of direction of an enemy (specification SpecWrap) *)

\* C32 (as claimed): when the change of direction fires while the enemy is
\* farther than 60% of boundaryDetectionRadius from the centre, the enemy
\* returns to the centre: returningToCenter is set, targetDirection points
\* toward the centre and no special maneuver is active.
C32_RetargetFarOutTurnsBack ==
    [][(/\ plane'.wraps = plane.wraps + 1
        /\ plane'.retargeted
        /\ HorizontalSq(plane'.position) > returnRadius * returnRadius)
       => /\ "returningToCenter" \in plane'.flags
          /\ plane'.targetDirection.x * plane'.position.x
               + plane'.targetDirection.z * plane'.position.z < 0
          /\ plane'.flags \cap {"isEvading", "isDiving", "isRolling"} = {}]_vars

-----------------------------------------------------------------------------
(* Claims about the colour flash of a hit enemy (specification SpecFlash) *)

\* C33 (as claimed): after any sequence of damage calls that the enemy
\* survives, once all pending revert timers have fired every sub-mesh has its
\* original colour again.
C33_ColoursRevert ==
    (flash.health > 0 /\ flash.timers = <<>>) => flash.color = OriginalColors

-----------------------------------------------------------------------------
(* Claims about the maneuvers of an enemy (specifications SpecManeuver and   *)
(* SpecManeuverFair)                                                         *)

C35_RollKeepsYawAndPitch ==
    [][(/\ ace.isRolling
        /\ ace'.isRolling
        /\ ace'.started = ace.started
        /\ ace'.beat # ace.beat)
       => /\ ace'.rotation.y = ace.rotation.y
          /\ ace'.rotation.x = ace.rotation.x
          /\ ~ace.isEvading => ace'.rotation.z = RollAngle(ace'.rollTimer)]_vars

\* halfway through a barrel roll that began after a turn
C35_Witness ==
    /\ ace.isRolling
    /\ ace.rollTimer > 700
    /\ ace.rotation.y # 0
    /\ ace.rotation.x # 0
    /\ ace.rotation.z # 0

\* C36: every update moves currentSpeed toward the target speed of the state
\* it finds once the maneuver timers have advanced, by at most
\* speedChangeRate * delta and never past the target, and currentSpeed stays
\* between 0.5 * speed and 1.3 * speed for the whole life of the enemy.
C36_SpeedInertia ==
    /\ [](/\ 2 * enemy.currentSpeed >= enemy.speed
          /\ 10 * enemy.currentSpeed <= 13 * enemy.speed)
    /\ [][LET target == TargetSpeed(HandleManeuver(enemy, enemy'.dt))
               step   == enemy'.dt \div SpeedChangePerMs
               before == enemy.currentSpeed
               after  == enemy'.currentSpeed
           IN  IF before <= target
               THEN before <= after /\ after <= target /\ after - before <= step
               ELSE target <= after /\ after <= before /\ before - after <= step]_vars

\* after a dive that raised the target, currentSpeed is back at the target
\* its rise from half speed had reached short of a full step
C36_Witness ==
    /\ enemy.dt > 0
    /\ enemy.behaviorState = "diving"
    /\ ~enemy.isDiving
    /\ enemy.diveTimer > enemy.diveDuration
    /\ enemy.diveDuration > 0
    /\ enemy.currentSpeed = TargetSpeed(enemy)
    /\ (enemy.currentSpeed - enemy.speed \div 2) % (MaxDelta \div SpeedChangePerMs) # 0

\* C37: the game ends on a ground collision only with the player below y = 2
\* and outside the runway rectangle; with the player over the runway the game
\* does not end, however low Player.update has brought it; and the player is
\* never below y = -50, so the "destroyed" branch of Game.update is never
\* taken.
C37_GroundFatalOffRunwayOnly ==
    /\ lander.gameOver =>
          /\ lander.screen = "ground"
          /\ lander.y < CrashAltitude
          /\ ~IsPositionOverRunway(lander.x, lander.z)
    /\ IsPositionOverRunway(lander.x, lander.z) => ~lander.gameOver
    /\ lander.y >= AbyssAltitude
    /\ lander.screen # "destroyed"

\* on the edge of the runway, as low as one frame at the speed limit brings
\* the player, and the game goes on
C37_Witness ==
    /\ lander.x = runwayWidth \div 2
    /\ lander.y = GroundLevel - maxSpeed
    /\ ~lander.gameOver

C39_BirdsWithinLimits ==
    /\ [](/\ Len(flock.birds) <= maxBirds
          /\ flock.last = "pass" => Len(flock.birds) <= (maxBirds * 8) \div 10)
    /\ [][flock'.evicted # flock.evicted =>
            /\ flock'.last = "pass"
            /\ Len(flock'.birds) = (maxBirds * 8) \div 10
            /\ \A i \in flock'.evicted \ flock.evicted, j \in BirdIdsOf(flock'.birds) :
                  i < j]_vars

\* two enemies were destroyed with 16 birds alive: the list was full at 20
\* birds, and the next pass has evicted the four oldest
C39_Witness ==
    /\ flock.last = "pass"
    /\ flock.releases = 2
    /\ flock.released = maxBirds
    /\ flock.evicted = 1..4
    /\ Len(flock.birds) = 16

\* C40: every blip of a redraw belongs to an enemy within the radar range of
\* the player and lies inside the radar disc, at most radarSize / 2 from its
\* centre; an enemy beyond the range has no blip and every enemy within it has
\* one; and a redraw happens only when at least radarUpdateInterval = 0.1 s of
\* simulated time has accumulated since the redraw before.
C40_RadarBlipsInRange ==
    /\ radar.redraws > 0 => radar.waited >= radarUpdateInterval
    /\ \A j \in 1..Len(radar.blips) :
          LET b == radar.blips[j]
          IN  /\ b.enemy \in 1..Len(radar.enemies)
              /\ ~BeyondRadar(radar.player, radar.enemies[b.enemy])
              /\ 4 * (b.x * b.x + b.y * b.y) <= (radarSize * 10) * (radarSize * 10)
    /\ \A i \in 1..Len(radar.enemies) :
          BeyondRadar(radar.player, radar.enemies[i])
              <=> ~(\E j \in 1..Len(radar.blips) : radar.blips[j].enemy = i)

\* a redraw after three short frames, the player heading obliquely: one enemy
\* at the very range has its blip on the rim of the disc, the other is beyond
\* the range and has none
C40_Witness ==
    /\ radar.redraws > 0
    /\ radar.waited = 3 * 16 + 50 + 16
    /\ radar.player.s = 800
    /\ Len(radar.blips) = 1
    /\ radar.blips[1].enemy = 2
    /\ 4 * (radar.blips[1].x * radar.blips[1].x + radar.blips[1].y * radar.blips[1].y)
          = (radarSize * 10) * (radarSize * 10)

====
